---- MODULE Spec2Model ----
(***************************************************************************)
(* Port negotiation and input validation of SoftVideoEncoderOMXComponent   *)
(* (media/libstagefright/omx/SoftVideoEncoderOMXComponent.cpp).            *)
(*                                                                         *)
(* The component object is the record `this`; its fields keep the names of *)
(* the C++ members.  Handlers are operators from a component record (and   *)
(* the call's parameter) to the returned OMX error and the component       *)
(* record after the call; one action per handler applies them.             *)
(*                                                                         *)
(* Parameter structures are well formed (isValidOMXParam holds): the       *)
(* marshalling envelope is outside the negotiation core.  Geometries are   *)
(* drawn from a bounded set on which none of the 32-bit products           *)
(* (width*height*4, width*height*3) wraps.                                 *)
(***************************************************************************)
EXTENDS Integers, Sequences, FiniteSets, TLC

(* ---------------------------------------------------------------- bounds *)

\* Geometries offered to the component are k*(320x240), k in 1..MaxDimSteps.
MaxDimSteps == 2
\* frames of the conversion checks are up to 2*MaxBlocks pixels wide and high
MaxBlocks == 2
\* colour channels take the values 0, 255/MaxChannelSteps, ..., 255
MaxChannelSteps == 8
\* chroma bytes take the values 0, 255/MaxByteSteps, ..., 255
MaxByteSteps == 2

(* ------------------------------------------------------------- constants *)

kInputPortIndex == 0
kOutputPortIndex == 1
kInputBufferAlignment == 1
kOutputBufferAlignment == 2

\* sizeof(VideoNativeMetadata), sizeof(VideoGrallocMetadata) on an LP64 ABI
sizeofVideoNativeMetadata == 24
sizeofVideoGrallocMetadata == 16

OMX_TRUE == 1
OMX_FALSE == 0

NULL == -1

EGL_NO_DISPLAY == "EGL_NO_DISPLAY"
EGL_NO_CONTEXT == "EGL_NO_CONTEXT"
EGL_NO_SURFACE == "EGL_NO_SURFACE"
\* the handles the EGL and GLES calls of initEgl return when they succeed
EGL_DEFAULT_DISPLAY == "EGL_DEFAULT_DISPLAY"
EglContextHandle == "context"
EglSurfaceHandle == "pbuffer"
GlProgramHandle == 1

OMX_ErrorNone == "OMX_ErrorNone"
OMX_ErrorUndefined == "OMX_ErrorUndefined"
OMX_ErrorUnsupportedSetting == "OMX_ErrorUnsupportedSetting"
OMX_ErrorBadPortIndex == "OMX_ErrorBadPortIndex"
OMX_ErrorNoMore == "OMX_ErrorNoMore"

OMX_COLOR_FormatUnused == "OMX_COLOR_FormatUnused"
OMX_COLOR_Format16bitRGB565 == "OMX_COLOR_Format16bitRGB565"
OMX_COLOR_FormatYUV420Planar == "OMX_COLOR_FormatYUV420Planar"
OMX_COLOR_FormatYUV420SemiPlanar == "OMX_COLOR_FormatYUV420SemiPlanar"
OMX_COLOR_FormatAndroidOpaque == "OMX_COLOR_FormatAndroidOpaque"

OMX_VIDEO_CodingUnused == "OMX_VIDEO_CodingUnused"
OMX_VIDEO_CodingAVC == "OMX_VIDEO_CodingAVC"
OMX_VIDEO_CodingMPEG4 == "OMX_VIDEO_CodingMPEG4"

kSupportedColorFormats ==
    << OMX_COLOR_FormatYUV420Planar,
       OMX_COLOR_FormatYUV420SemiPlanar,
       OMX_COLOR_FormatAndroidOpaque >>

(* ---------------------------------------------------------- input domains *)

Geometries == { <<320 * k, 240 * k>> : k \in 1..MaxDimSteps }
Framerates == { 15 * 65536, 30 * 65536 }
Bitrates == { 192000, 256000 }
ColorFormats ==
    { OMX_COLOR_FormatUnused, OMX_COLOR_Format16bitRGB565,
      OMX_COLOR_FormatYUV420Planar, OMX_COLOR_FormatYUV420SemiPlanar,
      OMX_COLOR_FormatAndroidOpaque }
CodingTypes == { OMX_VIDEO_CodingUnused, OMX_VIDEO_CodingAVC, OMX_VIDEO_CodingMPEG4 }
PortIndices == { kInputPortIndex, kOutputPortIndex, 2 }
\* nIndex of a format query: every entry of the table and two beyond it
FormatIndices == 0 .. Len(kSupportedColorFormats) + 1
EglProperties == { "default", "mesa", "powervr", "emulation" }
\* (width, height) a derived encoder passes to the constructor
ConstructorGeometries == { <<320, 240>> }
ConstructorCodingTypes == { OMX_VIDEO_CodingAVC }
\* (outputBufferSize, minCompressionRatio) a derived encoder passes to initPorts
InitPortsArguments == { <<384, 1>>, <<200000, 2>> }

\* OMX_PARAM_PORTDEFINITIONTYPE values a client may pass to SetParameter
PortDefinitions ==
    [ nPortIndex : PortIndices,
      geometry : Geometries,
      xFramerate : Framerates,
      nBitrate : Bitrates,
      eCompressionFormat : CodingTypes,
      eColorFormat : ColorFormats ]

\* OMX_VIDEO_PARAM_PORTFORMATTYPE values a client may pass to SetParameter
PortFormats ==
    [ nPortIndex : PortIndices,
      eCompressionFormat : CodingTypes,
      eColorFormat : ColorFormats ]

\* StoreMetaDataInBuffersParams values a client may pass to SetParameter
StoreMetaDataParams ==
    [ nPortIndex : PortIndices, bStoreMetaData : { OMX_FALSE, OMX_TRUE } ]

max(a, b) == IF a > b THEN a ELSE b

\* nFilledLen values of the input buffer headers handed to validateInputBuffer:
\* around the metadata record size and around each raw frame size
FilledLengths ==
    LET sizes == { sizeofVideoNativeMetadata } \cup { (g[1] * g[2] * 3) \div 2 : g \in Geometries }
    IN  { 0 } \cup UNION { { n - 1, n, n + 1 } : n \in sizes }

MetadataRecordSize == max(sizeofVideoNativeMetadata, sizeofVideoGrallocMetadata)

(* ----------------------------------------------------------------- state *)

VARIABLES
    pc,             \* "constructed" until initPorts has run, then "ready"
    roHardwareEgl,  \* the system property ro.hardware.egl
    this,           \* the component object
    call,           \* the call under examination and what it returned
    reply,          \* the structure GetParameter filled in for that call, if any
    aborted,        \* a CHECK failed: the process is gone
    egl             \* the EGL and GLES objects and the heap block the component
                    \* holds, as the driver and the allocator see them

vars == << pc, roHardwareEgl, this, call, reply, aborted, egl >>

editPortInfo(c, portIndex) == c.mPorts[portIndex + 1]

\* A run is a sequence of calls on the component of which the last one is
\* examined: call holds its name, its parameter and the error it returned.
\* The calls before it are made in the same way and leave call at NoCall, so
\* every state the component can reach is paired with every call made in it.
NoCall == [ op |-> "none", param |-> << >>, err |-> "none" ]

Call(op, param, err) == [ op |-> op, param |-> param, err |-> err ]

Examine(c) == call' \in { NoCall, c }

\* The process is alive and no call has been singled out yet.
Running == ~aborted /\ call = NoCall

(* ----------------------------------------------------------- construction *)

\* The constructor: the member initialisers and the ro.hardware.egl lookup.
Construct(codingType, width, height, property) ==
    [ mInputDataIsMeta |-> FALSE,
      mWidth |-> width,
      mHeight |-> height,
      mBitrate |-> 192000,
      mFramerate |-> 30 * 65536,
      mColorFormat |-> OMX_COLOR_FormatYUV420Planar,
      mMinOutputBufferSize |-> 384,
      mMinCompressionRatio |-> 1,
      mCodingType |-> codingType,
      mIsPowervr |-> (property = "powervr"),
      mShmData |-> NULL,
      mEglDisplay |-> EGL_NO_DISPLAY,
      mEglContext |-> EGL_NO_CONTEXT,
      mEglSurface |-> EGL_NO_SURFACE,
      mProgram |-> 0,
      mPorts |-> << >> ]

\* Nothing has been created at construction.  display..shm say which objects
\* are alive; current and linked say whether eglMakeCurrent and the shader
\* build succeeded; doubleRelease records that something was released that
\* was not alive; failed and tornDown record that an initEgl attempt has
\* failed and that closeEgl has torn an initialised display down.
NoEgl ==
    [ display |-> FALSE,
      context |-> FALSE,
      surface |-> FALSE,
      program |-> FALSE,
      current |-> FALSE,
      linked |-> FALSE,
      shm |-> FALSE,
      doubleRelease |-> FALSE,
      failed |-> FALSE,
      tornDown |-> FALSE ]

Init ==
    /\ pc = "constructed"
    /\ roHardwareEgl \in EglProperties
    /\ \E codingType \in ConstructorCodingTypes :
         \E g \in ConstructorGeometries :
            this = Construct(codingType, g[1], g[2], roHardwareEgl)
    /\ call = NoCall
    /\ reply = << >>
    /\ aborted = FALSE
    /\ egl = NoEgl

(* ------------------------------------------------------- updatePortParams *)

\* updatePortParams with the output size only ever growing
updatePortParams_incremental(c) ==
    LET inOld == editPortInfo(c, kInputPortIndex)
        outOld == editPortInfo(c, kOutputPortIndex)
        in1 == [ inOld EXCEPT
                     !.nFrameWidth = c.mWidth,
                     !.nFrameHeight = c.mHeight,
                     !.nStride = c.mWidth,
                     !.nSliceHeight = c.mHeight,
                     !.xFramerate = c.mFramerate,
                     !.eColorFormat = c.mColorFormat ]
        rawBufferSize == (in1.nStride * in1.nSliceHeight * 3) \div 2
        inDef == [ in1 EXCEPT
                     !.nBufferSize =
                         IF in1.eColorFormat = OMX_COLOR_FormatAndroidOpaque
                         THEN max(sizeofVideoNativeMetadata, sizeofVideoGrallocMetadata)
                         ELSE rawBufferSize ]
        outDef == [ outOld EXCEPT
                     !.nFrameWidth = c.mWidth,
                     !.nFrameHeight = c.mHeight,
                     !.nBitrate = c.mBitrate,
                     !.nBufferSize = max(outOld.nBufferSize,
                                         max(c.mMinOutputBufferSize,
                                             rawBufferSize \div c.mMinCompressionRatio)) ]
    IN  [ c EXCEPT !.mPorts = << inDef, outDef >> ]

\* updatePortParams sizing the input port for raw frames whatever the format
updatePortParams_rawInput(c) ==
    LET inOld == editPortInfo(c, kInputPortIndex)
        outOld == editPortInfo(c, kOutputPortIndex)
        in1 == [ inOld EXCEPT
                     !.nFrameWidth = c.mWidth,
                     !.nFrameHeight = c.mHeight,
                     !.nStride = c.mWidth,
                     !.nSliceHeight = c.mHeight,
                     !.xFramerate = c.mFramerate,
                     !.eColorFormat = c.mColorFormat ]
        rawBufferSize == (in1.nStride * in1.nSliceHeight * 3) \div 2
        inDef == [ in1 EXCEPT !.nBufferSize = rawBufferSize ]
        outDef == [ outOld EXCEPT
                     !.nFrameWidth = c.mWidth,
                     !.nFrameHeight = c.mHeight,
                     !.nBitrate = c.mBitrate,
                     !.nBufferSize = max(c.mMinOutputBufferSize,
                                         rawBufferSize \div c.mMinCompressionRatio) ]
    IN  [ c EXCEPT !.mPorts = << inDef, outDef >> ]

\* updatePortParams reading nStride and nSliceHeight before refreshing them
updatePortParams_staleStride(c) ==
    LET inOld == editPortInfo(c, kInputPortIndex)
        outOld == editPortInfo(c, kOutputPortIndex)
        rawBufferSize == (inOld.nStride * inOld.nSliceHeight * 3) \div 2
        in1 == [ inOld EXCEPT
                     !.nFrameWidth = c.mWidth,
                     !.nFrameHeight = c.mHeight,
                     !.nStride = c.mWidth,
                     !.nSliceHeight = c.mHeight,
                     !.xFramerate = c.mFramerate,
                     !.eColorFormat = c.mColorFormat ]
        inDef == [ in1 EXCEPT
                     !.nBufferSize =
                         IF in1.eColorFormat = OMX_COLOR_FormatAndroidOpaque
                         THEN max(sizeofVideoNativeMetadata, sizeofVideoGrallocMetadata)
                         ELSE rawBufferSize ]
        outDef == [ outOld EXCEPT
                     !.nFrameWidth = c.mWidth,
                     !.nFrameHeight = c.mHeight,
                     !.nBitrate = c.mBitrate,
                     !.nBufferSize = max(c.mMinOutputBufferSize,
                                         rawBufferSize \div c.mMinCompressionRatio) ]
    IN  [ c EXCEPT !.mPorts = << inDef, outDef >> ]

updatePortParams(c) ==
    LET inOld == editPortInfo(c, kInputPortIndex)
        outOld == editPortInfo(c, kOutputPortIndex)
        in1 == [ inOld EXCEPT
                     !.nFrameWidth = c.mWidth,
                     !.nFrameHeight = c.mHeight,
                     !.nStride = c.mWidth,
                     !.nSliceHeight = c.mHeight,
                     !.xFramerate = c.mFramerate,
                     !.eColorFormat = c.mColorFormat ]
        rawBufferSize == (in1.nStride * in1.nSliceHeight * 3) \div 2
        inDef == [ in1 EXCEPT
                     !.nBufferSize =
                         IF in1.eColorFormat = OMX_COLOR_FormatAndroidOpaque
                         THEN max(sizeofVideoNativeMetadata, sizeofVideoGrallocMetadata)
                         ELSE rawBufferSize ]
        outDef == [ outOld EXCEPT
                     !.nFrameWidth = c.mWidth,
                     !.nFrameHeight = c.mHeight,
                     !.nBitrate = c.mBitrate,
                     !.nBufferSize = max(c.mMinOutputBufferSize,
                                         rawBufferSize \div c.mMinCompressionRatio) ]
    IN  [ c EXCEPT !.mPorts = << inDef, outDef >> ]

(* -------------------------------------------------------------- initPorts *)

\* The two definitions initPorts hands to addPort, then updatePortParams.
initPorts(c, outputBufferSize, minCompressionRatio) ==
    LET c1 == [ c EXCEPT !.mMinOutputBufferSize = outputBufferSize,
                         !.mMinCompressionRatio = minCompressionRatio ]
        inDef == [ nPortIndex |-> kInputPortIndex,
                   eDir |-> "OMX_DirInput",
                   nFrameWidth |-> c1.mWidth,
                   nFrameHeight |-> c1.mHeight,
                   nStride |-> c1.mWidth,
                   nSliceHeight |-> c1.mHeight,
                   nBitrate |-> 0,
                   xFramerate |-> c1.mFramerate,
                   nBufferAlignment |-> kInputBufferAlignment,
                   eCompressionFormat |-> OMX_VIDEO_CodingUnused,
                   eColorFormat |-> c1.mColorFormat,
                   nBufferSize |-> 0 ]
        outDef == [ nPortIndex |-> kOutputPortIndex,
                    eDir |-> "OMX_DirOutput",
                    nFrameWidth |-> c1.mWidth,
                    nFrameHeight |-> c1.mHeight,
                    nStride |-> 0,
                    nSliceHeight |-> 0,
                    nBitrate |-> c1.mBitrate,
                    xFramerate |-> 0,
                    nBufferAlignment |-> kOutputBufferAlignment,
                    eCompressionFormat |-> c1.mCodingType,
                    eColorFormat |-> OMX_COLOR_FormatUnused,
                    nBufferSize |-> 0 ]
    IN  updatePortParams([ c1 EXCEPT !.mPorts = << inDef, outDef >> ])

InitPorts ==
    /\ pc = "constructed"
    /\ Running
    /\ \E a \in InitPortsArguments :
         /\ this' = initPorts(this, a[1], a[2])
         /\ Examine(Call("initPorts", a, OMX_ErrorNone))
    /\ pc' = "ready"
    /\ UNCHANGED << roHardwareEgl, reply, aborted, egl >>

(* -------------------------------------------------- internalSetPortParams *)

IsSupportedInputColorFormat(eColorFormat) ==
    \/ eColorFormat = OMX_COLOR_FormatYUV420Planar
    \/ eColorFormat = OMX_COLOR_FormatYUV420SemiPlanar
    \/ eColorFormat = OMX_COLOR_FormatAndroidOpaque

Result(err, c) == [ err |-> err, c |-> c ]

\* the kInputPortIndex branch storing the colour format before it checks it
setInputPortParams_colorFirst(c, port) ==
    LET w == port.geometry[1]
        h == port.geometry[2]
        c1 == [ c EXCEPT
                  !.mWidth = w,
                  !.mHeight = h,
                  !.mShmData = IF c.mIsPowervr /\ c.mShmData = NULL
                               THEN w * h * 4 ELSE @,
                  !.mFramerate = port.xFramerate,
                  !.mColorFormat = port.eColorFormat ]
    IN  IF \/ port.eCompressionFormat # OMX_VIDEO_CodingUnused
           \/ ~IsSupportedInputColorFormat(port.eColorFormat)
        THEN Result(OMX_ErrorUnsupportedSetting, c1)
        ELSE Result(OMX_ErrorNone, updatePortParams(c1))

\* the kInputPortIndex branch allocating mShmData anew for every definition
setInputPortParams_realloc(c, port) ==
    LET w == port.geometry[1]
        h == port.geometry[2]
        c1 == [ c EXCEPT
                  !.mWidth = w,
                  !.mHeight = h,
                  !.mShmData = IF c.mIsPowervr THEN w * h * 4 ELSE @,
                  !.mFramerate = port.xFramerate ]
    IN  IF \/ port.eCompressionFormat # OMX_VIDEO_CodingUnused
           \/ ~IsSupportedInputColorFormat(port.eColorFormat)
        THEN Result(OMX_ErrorUnsupportedSetting, c1)
        ELSE Result(OMX_ErrorNone,
                    updatePortParams([ c1 EXCEPT !.mColorFormat = port.eColorFormat ]))

\* the kInputPortIndex branch
setInputPortParams(c, port) ==
    LET w == port.geometry[1]
        h == port.geometry[2]
        c1 == [ c EXCEPT
                  !.mWidth = w,
                  !.mHeight = h,
                  !.mShmData = IF c.mIsPowervr /\ c.mShmData = NULL
                               THEN w * h * 4 ELSE @,
                  !.mFramerate = port.xFramerate ]
    IN  IF \/ port.eCompressionFormat # OMX_VIDEO_CodingUnused
           \/ ~IsSupportedInputColorFormat(port.eColorFormat)
        THEN Result(OMX_ErrorUnsupportedSetting, c1)
        ELSE Result(OMX_ErrorNone,
                    updatePortParams([ c1 EXCEPT !.mColorFormat = port.eColorFormat ]))

\* the kOutputPortIndex branch storing the bitrate before it checks the format
setOutputPortParams_bitrateFirst(c, port) ==
    LET c1 == [ c EXCEPT !.mBitrate = port.nBitrate ]
    IN  IF \/ port.eCompressionFormat # c.mCodingType
           \/ port.eColorFormat # OMX_COLOR_FormatUnused
        THEN Result(OMX_ErrorUnsupportedSetting, c1)
        ELSE Result(OMX_ErrorNone, updatePortParams(c1))

\* the kOutputPortIndex branch
setOutputPortParams(c, port) ==
    IF \/ port.eCompressionFormat # c.mCodingType
       \/ port.eColorFormat # OMX_COLOR_FormatUnused
    THEN Result(OMX_ErrorUnsupportedSetting, c)
    ELSE Result(OMX_ErrorNone,
                updatePortParams([ c EXCEPT !.mBitrate = port.nBitrate ]))

\* the port dispatch treating every port that is not the input port as the
\* output port
internalSetPortParams_twoWay(c, port) ==
    IF port.nPortIndex = kInputPortIndex THEN setInputPortParams(c, port)
    ELSE setOutputPortParams(c, port)

internalSetPortParams(c, port) ==
    IF port.nPortIndex = kInputPortIndex THEN setInputPortParams(c, port)
    ELSE IF port.nPortIndex = kOutputPortIndex THEN setOutputPortParams(c, port)
    ELSE Result(OMX_ErrorBadPortIndex, c)

(* ---------------------------------------------------- internalSetParameter *)

\* SimpleSoftOMXComponent::internalSetParameter(OMX_IndexParamPortDefinition):
\* the base class accepts the definition of an existing port; buffer pool
\* bookkeeping is outside the negotiation core and is not part of `this`.
SimpleSoftOMXComponent_internalSetParameter(c, port) ==
    IF port.nPortIndex + 1 \in DOMAIN c.mPorts
    THEN Result(OMX_ErrorNone, c)
    ELSE Result(OMX_ErrorBadPortIndex, c)

\* case OMX_IndexParamPortDefinition
internalSetParameter_PortDefinition(c, port) ==
    LET r == internalSetPortParams(c, port)
    IN  IF r.err # OMX_ErrorNone
        THEN r
        ELSE SimpleSoftOMXComponent_internalSetParameter(r.c, port)

\* case OMX_IndexParamVideoPortFormat
internalSetParameter_VideoPortFormat(c, format) ==
    IF format.nPortIndex = kInputPortIndex THEN
        IF IsSupportedInputColorFormat(format.eColorFormat)
        THEN Result(OMX_ErrorNone,
                    updatePortParams([ c EXCEPT !.mColorFormat = format.eColorFormat ]))
        ELSE Result(OMX_ErrorUnsupportedSetting, c)
    ELSE IF format.nPortIndex = kOutputPortIndex THEN
        IF format.eCompressionFormat = c.mCodingType
        THEN Result(OMX_ErrorNone, c)
        ELSE Result(OMX_ErrorUnsupportedSetting, c)
    ELSE Result(OMX_ErrorBadPortIndex, c)

\* the store-metadata case leaving the opaque format in place when switched off
internalSetParameter_StoreMetaData_keepOpaque(c, storeParam) ==
    IF storeParam.nPortIndex = kOutputPortIndex THEN
        Result(IF storeParam.bStoreMetaData # OMX_FALSE
               THEN OMX_ErrorUnsupportedSetting ELSE OMX_ErrorNone, c)
    ELSE IF storeParam.nPortIndex # kInputPortIndex THEN
        Result(OMX_ErrorBadPortIndex, c)
    ELSE
        LET meta == (storeParam.bStoreMetaData = OMX_TRUE)
            c1 == [ c EXCEPT
                      !.mInputDataIsMeta = meta,
                      !.mColorFormat =
                          IF meta THEN OMX_COLOR_FormatAndroidOpaque ELSE @ ]
        IN  Result(OMX_ErrorNone, updatePortParams(c1))

\* the store-metadata case applying a switch-off aimed at the output port
internalSetParameter_StoreMetaData_outputApplies(c, storeParam) ==
    IF storeParam.nPortIndex = kOutputPortIndex /\ storeParam.bStoreMetaData # OMX_FALSE THEN
        Result(OMX_ErrorUnsupportedSetting, c)
    ELSE IF storeParam.nPortIndex \notin { kInputPortIndex, kOutputPortIndex } THEN
        Result(OMX_ErrorBadPortIndex, c)
    ELSE
        LET meta == (storeParam.bStoreMetaData = OMX_TRUE)
            c1 == [ c EXCEPT
                      !.mInputDataIsMeta = meta,
                      !.mColorFormat =
                          IF meta THEN OMX_COLOR_FormatAndroidOpaque
                          ELSE IF @ = OMX_COLOR_FormatAndroidOpaque
                               THEN OMX_COLOR_FormatYUV420Planar
                               ELSE @ ]
        IN  Result(OMX_ErrorNone, updatePortParams(c1))

\* case kStoreMetaDataExtensionIndex
internalSetParameter_StoreMetaData(c, storeParam) ==
    IF storeParam.nPortIndex = kOutputPortIndex THEN
        Result(IF storeParam.bStoreMetaData # OMX_FALSE
               THEN OMX_ErrorUnsupportedSetting ELSE OMX_ErrorNone, c)
    ELSE IF storeParam.nPortIndex # kInputPortIndex THEN
        Result(OMX_ErrorBadPortIndex, c)
    ELSE
        LET meta == (storeParam.bStoreMetaData = OMX_TRUE)
            c1 == [ c EXCEPT
                      !.mInputDataIsMeta = meta,
                      !.mColorFormat =
                          IF meta THEN OMX_COLOR_FormatAndroidOpaque
                          ELSE IF @ = OMX_COLOR_FormatAndroidOpaque
                               THEN OMX_COLOR_FormatYUV420Planar
                               ELSE @ ]
        IN  Result(OMX_ErrorNone, updatePortParams(c1))

(* ---------------------------------------------------- internalGetParameter *)

\* SimpleSoftOMXComponent::internalGetParameter(OMX_IndexParamPortDefinition):
\* the base class copies the stored definition of the port.
SimpleSoftOMXComponent_internalGetParameter(c, portIndex) ==
    IF portIndex + 1 \in DOMAIN c.mPorts
    THEN [ err |-> OMX_ErrorNone, def |-> << editPortInfo(c, portIndex) >> ]
    ELSE [ err |-> OMX_ErrorUndefined, def |-> << >> ]

\* case OMX_IndexParamPortDefinition.  def is << >> when nothing was filled in,
\* abort is TRUE when the CHECK on the colour format fails.
internalGetParameter_PortDefinition(c, property, portIndex) ==
    IF portIndex > 1 THEN
        [ err |-> OMX_ErrorUndefined, def |-> << >>, abort |-> FALSE ]
    ELSE
        LET base == SimpleSoftOMXComponent_internalGetParameter(c, portIndex)
            isMesa == (property = "mesa")
            isPowervr == (property = "powervr")
            isEmulation == (property = "emulation")
        IN  IF base.err # OMX_ErrorNone THEN
                [ err |-> base.err, def |-> << >>, abort |-> FALSE ]
            ELSE IF /\ ~isMesa /\ ~isPowervr /\ ~isEmulation
                    /\ ~(\/ c.mColorFormat = OMX_COLOR_FormatYUV420Planar
                         \/ c.mColorFormat = OMX_COLOR_FormatYUV420SemiPlanar)
            THEN [ err |-> "none", def |-> << >>, abort |-> TRUE ]
            ELSE [ err |-> OMX_ErrorNone,
                   def |-> << [ base.def[1] EXCEPT
                                  !.nFrameWidth = c.mWidth,
                                  !.nFrameHeight = c.mHeight,
                                  !.nBufferSize = (c.mWidth * c.mHeight * 3) \div 2 ] >>,
                   abort |-> FALSE ]

\* the kInputPortIndex branch answering with the negotiated format first
internalGetParameter_VideoPortFormat_negotiated(c, portIndex, nIndex) ==
    IF portIndex = kInputPortIndex THEN
        IF nIndex >= Len(kSupportedColorFormats)
        THEN [ err |-> OMX_ErrorNoMore, format |-> << >> ]
        ELSE [ err |-> OMX_ErrorNone,
               format |-> << [ eColorFormat |->
                                 IF nIndex = 0 THEN c.mColorFormat
                                 ELSE kSupportedColorFormats[nIndex + 1],
                               eCompressionFormat |-> OMX_VIDEO_CodingUnused,
                               xFramerate |-> c.mFramerate ] >> ]
    ELSE IF portIndex = kOutputPortIndex THEN
        [ err |-> OMX_ErrorNone,
          format |-> << [ eColorFormat |-> OMX_COLOR_FormatUnused,
                          eCompressionFormat |-> c.mCodingType,
                          xFramerate |-> 0 ] >> ]
    ELSE [ err |-> OMX_ErrorBadPortIndex, format |-> << >> ]

\* case OMX_IndexParamVideoPortFormat of internalGetParameter.  nIndex is
\* unsigned and counts from 0; format is << >> when nothing was filled in.
internalGetParameter_VideoPortFormat(c, portIndex, nIndex) ==
    IF portIndex = kInputPortIndex THEN
        IF nIndex >= Len(kSupportedColorFormats)
        THEN [ err |-> OMX_ErrorNoMore, format |-> << >> ]
        ELSE [ err |-> OMX_ErrorNone,
               format |-> << [ eColorFormat |-> kSupportedColorFormats[nIndex + 1],
                               eCompressionFormat |-> OMX_VIDEO_CodingUnused,
                               xFramerate |-> c.mFramerate ] >> ]
    ELSE IF portIndex = kOutputPortIndex THEN
        [ err |-> OMX_ErrorNone,
          format |-> << [ eColorFormat |-> OMX_COLOR_FormatUnused,
                          eCompressionFormat |-> c.mCodingType,
                          xFramerate |-> 0 ] >> ]
    ELSE [ err |-> OMX_ErrorBadPortIndex, format |-> << >> ]

(* ----------------------------------------------------- validateInputBuffer *)

\* validateInputBuffer turning away every length but the expected one
validateInputBuffer_exact(c, nFilledLen) ==
    LET frameSize == IF c.mInputDataIsMeta
                     THEN max(sizeofVideoNativeMetadata, sizeofVideoGrallocMetadata)
                     ELSE (c.mWidth * c.mHeight * 3) \div 2
    IN  IF nFilledLen # frameSize
        THEN OMX_ErrorUndefined
        ELSE OMX_ErrorNone

validateInputBuffer(c, nFilledLen) ==
    LET frameSize == IF c.mInputDataIsMeta
                     THEN max(sizeofVideoNativeMetadata, sizeofVideoGrallocMetadata)
                     ELSE (c.mWidth * c.mHeight * 3) \div 2
    IN  IF nFilledLen < frameSize
        THEN OMX_ErrorUndefined
        ELSE OMX_ErrorNone

(* ------------------------------------------------------ initEgl, closeEgl *)

kMetadataBufferTypeCameraSource == "kMetadataBufferTypeCameraSource"
kMetadataBufferTypeGrallocSource == "kMetadataBufferTypeGrallocSource"
kMetadataBufferTypeANWBuffer == "kMetadataBufferTypeANWBuffer"

MetadataBufferTypes ==
    { kMetadataBufferTypeCameraSource,
      kMetadataBufferTypeGrallocSource,
      kMetadataBufferTypeANWBuffer }

EglSteps ==
    { "eglGetDisplay", "eglInitialize", "eglChooseConfig", "eglCreateContext",
      "eglCreatePbufferSurface", "eglMakeCurrent", "glCompileShader",
      "glLinkProgram" }

\* What the driver answers to the calls of one initEgl: the set of calls that
\* succeed.  Nothing works on a display that was not obtained and initialised,
\* a context is made current only if it and the surface exist, and shaders
\* are built only in a current context.  eglChooseConfig failing leaves
\* config unset, so the two calls that take it may go either way.
EglOutcomes ==
    { ok \in SUBSET EglSteps :
        /\ "eglInitialize" \in ok => "eglGetDisplay" \in ok
        /\ "eglChooseConfig" \in ok => "eglInitialize" \in ok
        /\ "eglCreateContext" \in ok => "eglInitialize" \in ok
        /\ "eglCreatePbufferSurface" \in ok => "eglInitialize" \in ok
        /\ "eglMakeCurrent" \in ok
              => { "eglCreateContext", "eglCreatePbufferSurface" } \subseteq ok
        /\ "glCompileShader" \in ok => "eglMakeCurrent" \in ok
        /\ "glLinkProgram" \in ok => "glCompileShader" \in ok }

\* acted: initEgl went on to eglGetDisplay, closeEgl tore the display down
EglResult(c, e, acted) == [ c |-> c, e |-> e, acted |-> acted ]

\* initEgl(width, height, src) with bufferType read from src and ok the calls
\* that succeed.  No return value is looked at: every member is assigned
\* whatever its call returned.  The pbuffer size and the shader pair chosen
\* from the pixel format stay inside the driver.
initEgl(c, e, bufferType, ok) ==
    IF ~c.mIsPowervr \/ c.mEglDisplay # EGL_NO_DISPLAY THEN
        EglResult(c, e, FALSE)
    ELSE IF bufferType \notin { kMetadataBufferTypeANWBuffer,
                                kMetadataBufferTypeGrallocSource } THEN
        EglResult(c, [ e EXCEPT !.failed = TRUE ], FALSE)
    ELSE
        LET c1 == [ c EXCEPT
                      !.mEglDisplay = IF "eglGetDisplay" \in ok
                                      THEN EGL_DEFAULT_DISPLAY ELSE EGL_NO_DISPLAY,
                      !.mEglContext = IF "eglCreateContext" \in ok
                                      THEN EglContextHandle ELSE EGL_NO_CONTEXT,
                      !.mEglSurface = IF "eglCreatePbufferSurface" \in ok
                                      THEN EglSurfaceHandle ELSE EGL_NO_SURFACE,
                      !.mProgram = IF "eglMakeCurrent" \in ok
                                   THEN GlProgramHandle ELSE 0 ]
            e1 == [ e EXCEPT
                      !.display = ("eglGetDisplay" \in ok),
                      !.context = ("eglCreateContext" \in ok),
                      !.surface = ("eglCreatePbufferSurface" \in ok),
                      !.current = ("eglMakeCurrent" \in ok),
                      !.program = ("eglMakeCurrent" \in ok),
                      !.linked = ("glLinkProgram" \in ok),
                      !.failed = @ \/ "eglGetDisplay" \notin ok ]
        IN  EglResult(c1, e1, TRUE)

\* the allocator or the driver releasing one object
Release(e, object) ==
    [ e EXCEPT ![object] = FALSE, !.doubleRelease = @ \/ ~e[object] ]

\* closeEgl leaving every member as it finds it
closeEgl_keepMembers(c, e) ==
    IF ~c.mIsPowervr THEN EglResult(c, e, FALSE)
    ELSE
        LET e1 == IF c.mShmData # NULL THEN Release(e, "shm") ELSE e
        IN  IF c.mEglDisplay = EGL_NO_DISPLAY THEN EglResult(c, e1, FALSE)
            ELSE
                LET e2 == IF c.mProgram # 0 THEN Release(e1, "program") ELSE e1
                    e3 == [ e2 EXCEPT !.current = FALSE, !.linked = FALSE ]
                    e4 == IF c.mEglSurface # EGL_NO_SURFACE
                          THEN Release(e3, "surface") ELSE e3
                    e5 == IF c.mEglContext # EGL_NO_CONTEXT
                          THEN Release(e4, "context") ELSE e4
                    e6 == [ Release(e5, "display") EXCEPT !.tornDown = TRUE ]
                IN  EglResult(c, e6, TRUE)

closeEgl(c, e) ==
    IF ~c.mIsPowervr THEN EglResult(c, e, FALSE)
    ELSE
        LET e1 == IF c.mShmData # NULL THEN Release(e, "shm") ELSE e
            c1 == [ c EXCEPT !.mShmData = NULL ]
        IN  IF c1.mEglDisplay = EGL_NO_DISPLAY THEN EglResult(c1, e1, FALSE)
            ELSE
                LET e2 == IF c1.mProgram # 0 THEN Release(e1, "program") ELSE e1
                    e3 == [ e2 EXCEPT !.current = FALSE, !.linked = FALSE ]
                    e4 == IF c1.mEglSurface # EGL_NO_SURFACE
                          THEN Release(e3, "surface") ELSE e3
                    e5 == IF c1.mEglContext # EGL_NO_CONTEXT
                          THEN Release(e4, "context") ELSE e4
                    e6 == [ Release(e5, "display") EXCEPT !.tornDown = TRUE ]
                    c2 == [ c1 EXCEPT
                              !.mProgram = 0,
                              !.mEglDisplay = EGL_NO_DISPLAY,
                              !.mEglSurface = EGL_NO_SURFACE,
                              !.mEglContext = EGL_NO_CONTEXT ]
                IN  EglResult(c2, e6, TRUE)

(* ------------------------------------------------------------ conversions *)

\* Memory is a function from byte offsets to bytes; a conversion returns the
\* bytes it stores as a set of << offset into dst, byte >> pairs.

\* x >> 8 of the unsigned (32-bit) x that holds the integer s:
\* (s mod 2^32) div 2^8 = (s div 2^8) mod 2^24
ShiftRight8(s) == (s \div 256) % 16777216

\* an unsigned value stored into a uint8_t
StoreByte(v) == v % 256

rgbLuma(red, green, blue) ==
    StoreByte(ShiftRight8(red * 65 + green * 129 + blue * 25 + 128) + 16)

\* U computed with a signed division that rounds towards zero
rgbU_roundToZero(red, green, blue) ==
    LET s == (0 - red) * 38 - green * 74 + blue * 112 + 128
        q == IF s >= 0 THEN s \div 256 ELSE 0 - ((0 - s) \div 256)
    IN  StoreByte(q + 128)

rgbU(red, green, blue) ==
    StoreByte(ShiftRight8((0 - red) * 38 - green * 74 + blue * 112 + 128) + 128)

rgbV(red, green, blue) ==
    StoreByte(ShiftRight8(red * 112 - green * 94 - blue * 18 + 128) + 128)

ConvertRGB32ToPlanar(src, width, height, srcStride, dstStride, dstVStride, bgr) ==
    LET dstU == dstStride * dstVStride
        dstV == dstU + (dstStride \div 2) * (dstVStride \div 2)
        redOffset == IF bgr THEN 2 ELSE 0
        greenOffset == 1
        blueOffset == IF bgr THEN 0 ELSE 2
        pixel(x, y) == y * srcStride + 4 * x
        red(x, y) == src[pixel(x, y) + redOffset]
        green(x, y) == src[pixel(x, y) + greenOffset]
        blue(x, y) == src[pixel(x, y) + blueOffset]
        sampled == { xy \in (0 .. width - 1) \X (0 .. height - 1) :
                       xy[1] % 2 = 0 /\ xy[2] % 2 = 0 }
        chromaRow(y) == (y \div 2) * (dstStride \div 2)
    IN  { << y * dstStride + x, rgbLuma(red(x, y), green(x, y), blue(x, y)) >> :
            x \in 0 .. width - 1, y \in 0 .. height - 1 }
        \cup
        { << dstU + chromaRow(xy[2]) + xy[1] \div 2,
             rgbU(red(xy[1], xy[2]), green(xy[1], xy[2]), blue(xy[1], xy[2])) >> :
            xy \in sampled }
        \cup
        { << dstV + chromaRow(xy[2]) + xy[1] \div 2,
             rgbV(red(xy[1], xy[2]), green(xy[1], xy[2]), blue(xy[1], xy[2])) >> :
            xy \in sampled }

\* ycbcr: the offsets of the three planes in src and their strides
\* (struct android_ycbcr).  The planar branch copies rows with memcpy, the
\* other steps through the chroma samples.
ConvertFlexYUVToPlanar(src, ycbcr, width, height, dstStride, dstVStride) ==
    LET dstU == dstVStride * dstStride
        dstV == dstU + (dstVStride \div 2) * (dstStride \div 2)
        rows == 0 .. height - 1
        chromaRows == 0 .. (height \div 2) - 1
        chromaCols == 0 .. (width \div 2) - 1
        step == IF ycbcr.cstride = ycbcr.ystride \div 2 /\ ycbcr.chroma_step = 1
                THEN 1 ELSE ycbcr.chroma_step
    IN  { << y * dstStride + x, src[ycbcr.y + y * ycbcr.ystride + x] >> :
            x \in 0 .. width - 1, y \in rows }
        \cup
        { << dstU + y * (dstStride \div 2) + x,
             src[ycbcr.cb + y * ycbcr.cstride + x * step] >> :
            x \in chromaCols, y \in chromaRows }
        \cup
        { << dstV + y * (dstStride \div 2) + x,
             src[ycbcr.cr + y * ycbcr.cstride + x * step] >> :
            x \in chromaCols, y \in chromaRows }

\* the uint32_t at byte offset i of a little-endian memory, as its two halves
LoadWord(mem, i) ==
    [ lo |-> mem[i] + 256 * mem[i + 1], hi |-> mem[i + 2] + 256 * mem[i + 3] ]

\* temp >> 8 and temp >> 16 of such a word
WordShiftRight8(temp) == temp.lo \div 256 + 256 * temp.hi
WordShiftRight16(temp) == temp.hi

\* v & 0xFF and v & 0xFF00
AndFF(v) == v % 256
AndFF00(v) == ((v \div 256) % 256) * 256

\* a uint16_t stored at byte offset i of a little-endian memory
StoreHalfWord(i, v) == { << i, v % 256 >>, << i + 1, (v \div 256) % 256 >> }

\* the chroma de-interleaving taking V before U
ConvertYUV420SemiPlanarToYUV420Planar_swapped(inYVU, width, height) ==
    LET outYsize == width * height
        outCb == outYsize
        outCr == outYsize + outYsize \div 4
        words == 0 .. (height \div 2) * (width \div 4) - 1
        temp(k) == LoadWord(inYVU, outYsize + 4 * k)
        tempV(k) == AndFF(temp(k).lo) + AndFF00(WordShiftRight8(temp(k)))
        tempU(k) == AndFF(WordShiftRight8(temp(k))) + AndFF00(WordShiftRight16(temp(k)))
    IN  { << i, inYVU[i] >> : i \in 0 .. outYsize - 1 }
        \cup UNION { StoreHalfWord(outCb + 2 * k, tempU(k)) : k \in words }
        \cup UNION { StoreHalfWord(outCr + 2 * k, tempV(k)) : k \in words }

ConvertYUV420SemiPlanarToYUV420Planar(inYVU, width, height) ==
    LET outYsize == width * height
        outCb == outYsize
        outCr == outYsize + outYsize \div 4
        words == 0 .. (height \div 2) * (width \div 4) - 1
        temp(k) == LoadWord(inYVU, outYsize + 4 * k)
        tempU(k) == AndFF(temp(k).lo) + AndFF00(WordShiftRight8(temp(k)))
        tempV(k) == AndFF(WordShiftRight8(temp(k))) + AndFF00(WordShiftRight16(temp(k)))
    IN  { << i, inYVU[i] >> : i \in 0 .. outYsize - 1 }
        \cup UNION { StoreHalfWord(outCb + 2 * k, tempU(k)) : k \in words }
        \cup UNION { StoreHalfWord(outCr + 2 * k, tempV(k)) : k \in words }

(* -------------------------------------------------- extractGraphicBuffer *)

HAL_PIXEL_FORMAT_RGBA_8888 == "HAL_PIXEL_FORMAT_RGBA_8888"
HAL_PIXEL_FORMAT_RGBX_8888 == "HAL_PIXEL_FORMAT_RGBX_8888"
HAL_PIXEL_FORMAT_BGRA_8888 == "HAL_PIXEL_FORMAT_BGRA_8888"
HAL_PIXEL_FORMAT_RGB_565 == "HAL_PIXEL_FORMAT_RGB_565"
HAL_PIXEL_FORMAT_YV12 == "HAL_PIXEL_FORMAT_YV12"
HAL_PIXEL_FORMAT_YCrCb_420_SP == "HAL_PIXEL_FORMAT_YCrCb_420_SP"
HAL_PIXEL_FORMAT_YCbCr_420_888 == "HAL_PIXEL_FORMAT_YCbCr_420_888"

PixelFormats ==
    { HAL_PIXEL_FORMAT_RGBA_8888, HAL_PIXEL_FORMAT_RGBX_8888,
      HAL_PIXEL_FORMAT_BGRA_8888, HAL_PIXEL_FORMAT_RGB_565,
      HAL_PIXEL_FORMAT_YV12, HAL_PIXEL_FORMAT_YCrCb_420_SP,
      HAL_PIXEL_FORMAT_YCbCr_420_888 }

Rgb32Formats ==
    { HAL_PIXEL_FORMAT_RGBX_8888, HAL_PIXEL_FORMAT_RGBA_8888,
      HAL_PIXEL_FORMAT_BGRA_8888 }

\* the size of the luma plane alone
neededSize_lumaOnly(width, height) == width * height

neededSize(width, height) ==
    width * height + (width \div 2)
        + (width \div 2) * ((height \div 2) + (height \div 2) - 1)

\* One call of extractGraphicBuffer(dst, dstSize, src, srcSize, width, height):
\* the metadata record at src (its type, and for a native-window record the
\* pixel format of the buffer and the fence that comes with it), the two
\* sizes, and what the fence and the mapper answer.  A gralloc record has no
\* format and no fence, a record of another type is not read past its type.
Extraction(eType, srcSize, format, nFenceFd, fenceSignals, dstSize, lockOK) ==
    [ eType |-> eType, srcSize |-> srcSize, format |-> format,
      nFenceFd |-> nFenceFd, fenceSignals |-> fenceSignals,
      dstSize |-> dstSize, lockOK |-> lockOK ]

Extractions(width, height) ==
    LET dstSizes == { neededSize(width, height) - 1, neededSize(width, height) }
    IN  { Extraction(kMetadataBufferTypeANWBuffer, srcSize, format, fence[1],
                     fence[2], dstSize, lockOK) :
            srcSize \in { sizeofVideoNativeMetadata - 1, sizeofVideoNativeMetadata },
            format \in PixelFormats,
            fence \in { << -1, TRUE >>, << 7, TRUE >>, << 7, FALSE >> },
            dstSize \in dstSizes,
            lockOK \in BOOLEAN }
        \cup
        { Extraction(kMetadataBufferTypeGrallocSource, srcSize,
                     HAL_PIXEL_FORMAT_RGBA_8888, -1, TRUE, dstSize, lockOK) :
            srcSize \in { sizeofVideoGrallocMetadata - 1, sizeofVideoGrallocMetadata },
            dstSize \in dstSizes,
            lockOK \in BOOLEAN }
        \cup
        { Extraction(kMetadataBufferTypeCameraSource, sizeofVideoNativeMetadata,
                     HAL_PIXEL_FORMAT_RGBA_8888, -1, TRUE,
                     neededSize(width, height), TRUE) }

\* What one call did, in order, and what it returned: "dst" or "NULL".  crash
\* says that the call read through a null mShmData and returned nothing,
\* overrun that glReadPixels stored past the end of mShmData.
Extracted(ret, trace) ==
    [ ret |-> ret, trace |-> trace, crash |-> FALSE, overrun |-> FALSE ]

Crashed(trace) ==
    [ ret |-> "none", trace |-> trace, crash |-> TRUE, overrun |-> FALSE ]

\* the image and the texture left behind when the call returns
gpuConvert_leak(c, width, height, t) ==
    LET t1 == t \o << "eglCreateImageKHR", "glGenTextures", "glDraw", "glReadPixels" >>
    IN  IF c.mShmData = NULL
        THEN Crashed(t1 \o << "ConvertRGB32ToPlanar(mShmData)" >>)
        ELSE [ Extracted("dst", t1 \o << "ConvertRGB32ToPlanar(mShmData)", "unlock" >>)
                 EXCEPT !.overrun = c.mShmData < width * height * 4 ]

\* import the buffer as a texture, draw it, read width*height*4 bytes of
\* pixels back into mShmData and convert from there
gpuConvert(c, width, height, t) ==
    LET t1 == t \o << "eglCreateImageKHR", "glGenTextures", "glDraw", "glReadPixels" >>
    IN  IF c.mShmData = NULL
        THEN Crashed(t1 \o << "ConvertRGB32ToPlanar(mShmData)" >>)
        ELSE [ Extracted("dst",
                   t1 \o << "ConvertRGB32ToPlanar(mShmData)", "glDeleteTextures",
                            "eglDestroyImageKHR", "unlock" >>)
                 EXCEPT !.overrun = c.mShmData < width * height * 4 ]

\* What a call may come to: what it did, or, once it has stored past the end
\* of mShmData, the end of the process at any later point; the earliest is the
\* store itself.
Outcomes(r) ==
    IF r.overrun
    THEN { r, [ Crashed(SubSeq(r.trace, 1,
                               CHOOSE i \in 1 .. Len(r.trace) :
                                  r.trace[i] = "glReadPixels"))
                  EXCEPT !.overrun = TRUE ] }
    ELSE { r }

\* the default case converting what it does not know as 32-bit RGB
convertLocked_defaultConverts(c, x, width, height, t) ==
    IF x.format \in { HAL_PIXEL_FORMAT_YV12, HAL_PIXEL_FORMAT_YCrCb_420_SP } THEN
        Extracted("dst", t \o << "ConvertFlexYUVToPlanar", "unlock" >>)
    ELSE IF x.format \in Rgb32Formats \cup { HAL_PIXEL_FORMAT_YCbCr_420_888 } THEN
        IF c.mIsPowervr THEN
            IF c.mEglDisplay # EGL_NO_DISPLAY
            THEN gpuConvert(c, width, height, t)
            ELSE Extracted("NULL", t)
        ELSE IF x.format = HAL_PIXEL_FORMAT_YCbCr_420_888
        THEN Extracted("dst", t \o << "ConvertFlexYUVToPlanar", "unlock" >>)
        ELSE Extracted("dst", t \o << "ConvertRGB32ToPlanar(bits)", "unlock" >>)
    ELSE Extracted("NULL", t \o << "ConvertRGB32ToPlanar(bits)", "unlock" >>)

\* the switch on the pixel format, entered with the buffer locked
convertLocked(c, x, width, height, t) ==
    IF x.format \in { HAL_PIXEL_FORMAT_YV12, HAL_PIXEL_FORMAT_YCrCb_420_SP } THEN
        Extracted("dst", t \o << "ConvertFlexYUVToPlanar", "unlock" >>)
    ELSE IF x.format \in Rgb32Formats \cup { HAL_PIXEL_FORMAT_YCbCr_420_888 } THEN
        IF c.mIsPowervr THEN
            IF c.mEglDisplay # EGL_NO_DISPLAY
            THEN gpuConvert(c, width, height, t)
            ELSE Extracted("NULL", t)
        ELSE IF x.format = HAL_PIXEL_FORMAT_YCbCr_420_888
        THEN Extracted("dst", t \o << "ConvertFlexYUVToPlanar", "unlock" >>)
        ELSE Extracted("dst", t \o << "ConvertRGB32ToPlanar(bits)", "unlock" >>)
    ELSE Extracted("NULL", t \o << "unlock" >>)

\* the buffer locked before the destination size is checked
checkAndLock_lockFirst(c, x, width, height, t) ==
    IF ~x.lockOK THEN
        Extracted("NULL", t \o << "lock" >>)
    ELSE IF x.dstSize < neededSize(width, height) THEN
        Extracted("NULL", t \o << "lock", "dstSize", "unlock" >>)
    ELSE convertLocked(c, x, width, height, t \o << "lock", "dstSize" >>)

\* from the destination size check on, with t what was done before it
checkAndLock(c, x, width, height, t) ==
    IF x.dstSize < neededSize(width, height) THEN
        Extracted("NULL", t \o << "dstSize" >>)
    ELSE IF ~x.lockOK THEN
        Extracted("NULL", t \o << "dstSize", "lock" >>)
    ELSE convertLocked(c, x, width, height, t \o << "dstSize", "lock" >>)

\* extractGraphicBuffer going on after a fence wait that timed out
extractGraphicBuffer_fenceIgnored(c, x, width, height) ==
    IF x.eType \notin { kMetadataBufferTypeANWBuffer,
                        kMetadataBufferTypeGrallocSource } THEN
        Extracted("NULL", << "bufferType" >>)
    ELSE IF x.eType = kMetadataBufferTypeANWBuffer THEN
        IF x.srcSize < sizeofVideoNativeMetadata THEN
            Extracted("NULL", << "bufferType", "srcSize" >>)
        ELSE IF x.nFenceFd >= 0 THEN
            checkAndLock(c, x, width, height,
                         << "bufferType", "srcSize", "fence->wait" >>)
        ELSE checkAndLock(c, x, width, height, << "bufferType", "srcSize" >>)
    ELSE
        IF x.srcSize < sizeofVideoGrallocMetadata THEN
            Extracted("NULL", << "bufferType", "srcSize" >>)
        ELSE checkAndLock(c, [ x EXCEPT !.format = HAL_PIXEL_FORMAT_RGBA_8888 ],
                          width, height, << "bufferType", "srcSize" >>)

extractGraphicBuffer(c, x, width, height) ==
    IF x.eType \notin { kMetadataBufferTypeANWBuffer,
                        kMetadataBufferTypeGrallocSource } THEN
        Extracted("NULL", << "bufferType" >>)
    ELSE IF x.eType = kMetadataBufferTypeANWBuffer THEN
        IF x.srcSize < sizeofVideoNativeMetadata THEN
            Extracted("NULL", << "bufferType", "srcSize" >>)
        ELSE IF x.nFenceFd >= 0 THEN
            IF ~x.fenceSignals
            THEN Extracted("NULL", << "bufferType", "srcSize", "fence->wait" >>)
            ELSE checkAndLock(c, x, width, height,
                              << "bufferType", "srcSize", "fence->wait" >>)
        ELSE checkAndLock(c, x, width, height, << "bufferType", "srcSize" >>)
    ELSE
        IF x.srcSize < sizeofVideoGrallocMetadata THEN
            Extracted("NULL", << "bufferType", "srcSize" >>)
        ELSE checkAndLock(c, [ x EXCEPT !.format = HAL_PIXEL_FORMAT_RGBA_8888 ],
                          width, height, << "bufferType", "srcSize" >>)

(* ---------------------------------------------------------------- actions *)

SetParameterPortDefinition ==
    /\ pc = "ready"
    /\ Running
    /\ \E port \in PortDefinitions :
         LET r == internalSetParameter_PortDefinition(this, port)
         IN  /\ this' = r.c
             /\ egl' = [ egl EXCEPT !.shm = @ \/ (this.mShmData = NULL /\ r.c.mShmData # NULL) ]
             /\ Examine(Call("SetParameter(PortDefinition)", port, r.err))
    /\ UNCHANGED << pc, roHardwareEgl, reply, aborted >>

SetParameterVideoPortFormat ==
    /\ pc = "ready"
    /\ Running
    /\ \E format \in PortFormats :
         LET r == internalSetParameter_VideoPortFormat(this, format)
         IN  /\ this' = r.c
             /\ Examine(Call("SetParameter(VideoPortFormat)", format, r.err))
    /\ UNCHANGED << pc, roHardwareEgl, reply, aborted, egl >>

SetParameterStoreMetaData ==
    /\ pc = "ready"
    /\ Running
    /\ \E storeParam \in StoreMetaDataParams :
         LET r == internalSetParameter_StoreMetaData(this, storeParam)
         IN  /\ this' = r.c
             /\ Examine(Call("SetParameter(StoreMetaData)", storeParam, r.err))
    /\ UNCHANGED << pc, roHardwareEgl, reply, aborted, egl >>

\* GetParameter and validateInputBuffer leave the component as it is, so only
\* the examined call is a step.
GetParameterPortDefinition ==
    /\ pc = "ready"
    /\ Running
    /\ \E portIndex \in PortIndices :
         LET r == internalGetParameter_PortDefinition(this, roHardwareEgl, portIndex)
         IN  /\ call' = Call("GetParameter(PortDefinition)",
                             [ nPortIndex |-> portIndex ], r.err)
             /\ reply' = r.def
             /\ aborted' = r.abort
    /\ UNCHANGED << pc, roHardwareEgl, this, egl >>

GetParameterVideoPortFormat ==
    /\ pc = "ready"
    /\ Running
    /\ \E portIndex \in PortIndices :
         \E nIndex \in FormatIndices :
            LET r == internalGetParameter_VideoPortFormat(this, portIndex, nIndex)
            IN  /\ call' = Call("GetParameter(VideoPortFormat)",
                                [ nPortIndex |-> portIndex, nIndex |-> nIndex ], r.err)
                /\ reply' = r.format
    /\ UNCHANGED << pc, roHardwareEgl, this, aborted, egl >>

ValidateInputBuffer ==
    /\ pc = "ready"
    /\ Running
    /\ \E nFilledLen \in FilledLengths :
         call' = Call("validateInputBuffer", [ nFilledLen |-> nFilledLen ],
                      validateInputBuffer(this, nFilledLen))
    /\ UNCHANGED << pc, roHardwareEgl, this, reply, aborted, egl >>

Next ==
    \/ InitPorts
    \/ SetParameterPortDefinition
    \/ SetParameterVideoPortFormat
    \/ SetParameterStoreMetaData
    \/ GetParameterPortDefinition
    \/ GetParameterVideoPortFormat
    \/ ValidateInputBuffer

Spec == Init /\ [][Next]_vars

(* ------------------------------------------- the GPU path and its actions *)

\* Input port definitions of the renegotiations between frames: a new frame
\* size, with a colour format that is accepted or one that is not.
GpuPortDefinitions ==
    { port \in PortDefinitions :
        /\ port.nPortIndex = kInputPortIndex
        /\ port.xFramerate = 30 * 65536
        /\ port.nBitrate = 192000
        /\ port.eCompressionFormat = OMX_VIDEO_CodingUnused
        /\ port.eColorFormat \in { OMX_COLOR_FormatYUV420Planar,
                                   OMX_COLOR_FormatUnused } }

RenegotiateInput ==
    /\ pc = "ready"
    /\ Running
    /\ \E port \in GpuPortDefinitions :
         LET r == internalSetParameter_PortDefinition(this, port)
         IN  /\ this' = r.c
             /\ egl' = [ egl EXCEPT !.shm = @ \/ (this.mShmData = NULL /\ r.c.mShmData # NULL) ]
             /\ Examine(Call("SetParameter(PortDefinition)", port, r.err))
    /\ UNCHANGED << pc, roHardwareEgl, reply, aborted >>

\* reply holds what the examined call did
Reported(r) == reply' = IF call' = NoCall THEN reply ELSE r

InitEgl ==
    /\ pc = "ready"
    /\ Running
    /\ \E bufferType \in MetadataBufferTypes :
         \E ok \in EglOutcomes :
            LET r == initEgl(this, egl, bufferType, ok)
            IN  /\ this' = r.c
                /\ egl' = r.e
                /\ Examine(Call("initEgl", [ bufferType |-> bufferType, ok |-> ok ],
                                "void"))
                /\ Reported([ acted |-> r.acted ])
    /\ UNCHANGED << pc, roHardwareEgl, aborted >>

CloseEgl ==
    /\ pc = "ready"
    /\ Running
    /\ LET r == closeEgl(this, egl)
       IN  /\ this' = r.c
           /\ egl' = r.e
           /\ Examine(Call("closeEgl", << >>, "void"))
           /\ Reported([ acted |-> r.acted ])
    /\ UNCHANGED << pc, roHardwareEgl, aborted >>

\* extractGraphicBuffer is const and is called with the negotiated frame size;
\* the image and the texture it creates are gone when it returns.
ExtractGraphicBuffer ==
    /\ pc = "ready"
    /\ Running
    /\ \E x \in Extractions(this.mWidth, this.mHeight) :
         \E r \in Outcomes(extractGraphicBuffer(this, x, this.mWidth, this.mHeight)) :
            /\ call' = Call("extractGraphicBuffer", x, r.ret)
            /\ reply' = r
            /\ aborted' = r.crash
    /\ UNCHANGED << pc, roHardwareEgl, this, egl >>

NextGpu ==
    \/ InitPorts
    \/ RenegotiateInput
    \/ SetParameterStoreMetaData
    \/ ValidateInputBuffer
    \/ InitEgl
    \/ CloseEgl
    \/ ExtractGraphicBuffer

SpecGpu == Init /\ [][NextGpu]_vars

(* ------------------------------------------ the conversions on small frames *)

SmallFrames == { << 2 * i, 2 * j >> : i \in 1 .. MaxBlocks, j \in 1 .. MaxBlocks }

\* frames ConvertRGB32ToPlanar is called with: the small frames and one of
\* odd width
Rgb32Frames == SmallFrames \cup { << 3, 2 >> }

\* frames whose width is a multiple of 4
SemiPlanarFrames == { << 4, 2 >>, << 8, 2 >>, << 4, 4 >> }

ChannelValues == { (255 * k) \div MaxChannelSteps : k \in 0 .. MaxChannelSteps }

ByteValues == { (255 * k) \div MaxByteSteps : k \in 0 .. MaxByteSteps }

\* a source buffer of size bytes with no two neighbours alike
PatternBytes(size) == [ i \in 0 .. size - 1 |-> (37 * i + 11) % 256 ]

\* A 32-bit RGB frame: the top left pixel of every 2x2 block has the colour
\* rgb, the other three its complement; rows are srcStride bytes long.
Rgb32Frame(rgb, width, height, srcStride, bgr) ==
    [ i \in 0 .. height * srcStride - 1 |->
        LET x == (i % srcStride) \div 4
            y == i \div srcStride
            k == i % 4
            colour == IF x % 2 = 0 /\ y % 2 = 0
                      THEN rgb
                      ELSE << 255 - rgb[1], 255 - rgb[2], 255 - rgb[3] >>
        IN  IF x >= width \/ k = 3 THEN 255
            ELSE IF k = 1 THEN colour[2]
            ELSE IF (k = 0) = bgr THEN colour[3]
            ELSE colour[1] ]

\* The state of the conversion checks: a component on a platform without the
\* GPU path, and no call made yet.
InitFrames ==
    /\ pc = "frames"
    /\ roHardwareEgl = "default"
    /\ \E codingType \in ConstructorCodingTypes :
         \E g \in ConstructorGeometries :
            this = Construct(codingType, g[1], g[2], roHardwareEgl)
    /\ call = NoCall
    /\ reply = << >>
    /\ aborted = FALSE
    /\ egl = NoEgl

\* CHECK((width & 1) == 0); CHECK((height & 1) == 0); then the conversion
ConvertRGB32ToPlanarCall ==
    /\ pc = "frames"
    /\ Running
    /\ \E g \in Rgb32Frames :
         \E rgb \in ChannelValues \X ChannelValues \X ChannelValues :
            \E padding \in { 0, 8 } :
               \E bgr \in BOOLEAN :
                  LET srcStride == 4 * g[1] + padding
                      src == Rgb32Frame(rgb, g[1], g[2], srcStride, bgr)
                      checked == g[1] % 2 = 0 /\ g[2] % 2 = 0
                  IN  /\ call' = Call("ConvertRGB32ToPlanar",
                                      [ width |-> g[1], height |-> g[2], rgb |-> rgb,
                                        srcStride |-> srcStride, bgr |-> bgr ],
                                      "void")
                      /\ aborted' = ~checked
                      /\ reply' = [ writes |->
                                      IF checked
                                      THEN ConvertRGB32ToPlanar(src, g[1], g[2], srcStride,
                                                                g[1], g[2], bgr)
                                      ELSE { } ]
    /\ UNCHANGED << pc, roHardwareEgl, this, egl >>

\* The semiplanar frame made of a luma plane and two chroma planes
\* (0-indexed): width*height luma bytes, then the chroma bytes interleaved,
\* U before V.
PackSemiPlanar(lumaPlane, uPlane, vPlane, width, height) ==
    [ i \in 0 .. width * height + (width * height) \div 2 - 1 |->
        IF i < width * height THEN lumaPlane[i]
        ELSE LET k == i - width * height
             IN  IF k % 2 = 0 THEN uPlane[k \div 2] ELSE vPlane[k \div 2] ]

ChromaPlanes(width, height) == [ 0 .. (width * height) \div 4 - 1 -> ByteValues ]

ConvertYUV420SemiPlanarToYUV420PlanarCall ==
    /\ pc = "frames"
    /\ Running
    /\ \E g \in SemiPlanarFrames :
         \E uPlane \in ChromaPlanes(g[1], g[2]) :
            \E vPlane \in ChromaPlanes(g[1], g[2]) :
               LET inYVU == PackSemiPlanar(PatternBytes(g[1] * g[2]), uPlane, vPlane,
                                           g[1], g[2])
               IN  /\ call' = Call("ConvertYUV420SemiPlanarToYUV420Planar",
                                   [ width |-> g[1], height |-> g[2],
                                     uPlane |-> uPlane, vPlane |-> vPlane ],
                                   "void")
                   /\ reply' = [ writes |->
                                   ConvertYUV420SemiPlanarToYUV420Planar(
                                       inYVU, g[1], g[2]) ]
    /\ UNCHANGED << pc, roHardwareEgl, this, aborted, egl >>

\* srcStride in bytes, from the stride in pixels of the native-window buffer
srcStrideOf(c, x, width, stride) ==
    IF x.eType = kMetadataBufferTypeANWBuffer THEN
        IF \/ c.mIsPowervr
           \/ x.format \notin { HAL_PIXEL_FORMAT_YV12, HAL_PIXEL_FORMAT_YCrCb_420_SP,
                                HAL_PIXEL_FORMAT_YCbCr_420_888 }
        THEN stride * 4 ELSE stride
    ELSE width * 4

\* the android_ycbcr the format switch sets up for YV12 and for NV21, and the
\* one lockYCbCr fills in for a flexible YUV buffer laid out as I420
ycbcrOf(format, srcStride, srcVStride) ==
    LET cr == srcStride * srcVStride
    IN  IF format = HAL_PIXEL_FORMAT_YV12 THEN
            [ y |-> 0, cr |-> cr,
              cb |-> cr + (srcStride \div 2) * (srcVStride \div 2),
              chroma_step |-> 1, cstride |-> srcStride \div 2, ystride |-> srcStride ]
        ELSE IF format = HAL_PIXEL_FORMAT_YCrCb_420_SP THEN
            [ y |-> 0, cr |-> cr, cb |-> cr + 1,
              chroma_step |-> 2, cstride |-> srcStride, ystride |-> srcStride ]
        ELSE
            [ y |-> 0, cb |-> cr,
              cr |-> cr + (srcStride \div 2) * (srcVStride \div 2),
              chroma_step |-> 1, cstride |-> srcStride \div 2, ystride |-> srcStride ]

\* extractGraphicBuffer on the CPU path together with the bytes its
\* conversion stores into dst: bits is the locked buffer, stride its stride
\* in pixels; the buffer is as high as the frame.
extractFrame(c, x, width, height, bits, stride) ==
    LET r == extractGraphicBuffer(c, x, width, height)
        format == IF x.eType = kMetadataBufferTypeANWBuffer
                  THEN x.format ELSE HAL_PIXEL_FORMAT_RGBA_8888
        srcStride == srcStrideOf(c, x, width, stride)
        last == IF Len(r.trace) >= 2 THEN r.trace[Len(r.trace) - 1] ELSE "none"
        writes == IF last = "ConvertFlexYUVToPlanar"
                  THEN ConvertFlexYUVToPlanar(bits, ycbcrOf(format, srcStride, height),
                                              width, height, width, height)
                  ELSE IF last = "ConvertRGB32ToPlanar(bits)"
                  THEN ConvertRGB32ToPlanar(bits, width, height, srcStride,
                                            width, height,
                                            format = HAL_PIXEL_FORMAT_BGRA_8888)
                  ELSE { }
    IN  [ ret |-> r.ret, trace |-> r.trace, crash |-> r.crash, writes |-> writes ]

ExtractFrame ==
    /\ pc = "frames"
    /\ Running
    /\ \E g \in SmallFrames :
         \E x \in Extractions(g[1], g[2]) :
            \E padding \in { 0, 2 } :
               LET stride == g[1] + padding
                   bits == PatternBytes(4 * stride * g[2])
                   r == extractFrame(this, x, g[1], g[2], bits, stride)
               IN  /\ call' = Call("extractGraphicBuffer",
                                   [ x |-> x, width |-> g[1], height |-> g[2],
                                     stride |-> stride ],
                                   r.ret)
                   /\ reply' = r
                   /\ aborted' = r.crash
    /\ UNCHANGED << pc, roHardwareEgl, this, egl >>

NextFrames ==
    \/ ExtractFrame
    \/ ConvertRGB32ToPlanarCall
    \/ ConvertYUV420SemiPlanarToYUV420PlanarCall

SpecFrames == InitFrames /\ [][NextFrames]_vars

(* ----------------------------------------------------------- properties *)

inDef == editPortInfo(this, kInputPortIndex)
outDef == editPortInfo(this, kOutputPortIndex)

IsCall(c, op) == c.op = op

OnPort(c, portIndex) == c.param.nPortIndex = portIndex

\* The examined call is one of the calls that change the configuration, and
\* it was accepted.
ConfigurationChanged ==
    /\ call.err = OMX_ErrorNone
    /\ \/ IsCall(call, "initPorts")
       \/ /\ IsCall(call, "SetParameter(PortDefinition)")
          /\ call.param.nPortIndex \in { kInputPortIndex, kOutputPortIndex }
       \/ /\ IsCall(call, "SetParameter(VideoPortFormat)")
          /\ OnPort(call, kInputPortIndex)
       \/ /\ IsCall(call, "SetParameter(StoreMetaData)")
          /\ OnPort(call, kInputPortIndex)

RawFrameSize(c) == (c.mWidth * c.mHeight * 3) \div 2

\* C1: after initPorts and after every accepted SetParameter that changes the
\* configuration, the output port's stored buffer size is
\* max(minOutputBufferSize, (width*height*3/2) / minCompressionRatio) of the
\* current width and height, whatever updates came before.
C1_OutputBufferSize ==
    ConfigurationChanged =>
        outDef.nBufferSize =
            max(this.mMinOutputBufferSize,
                RawFrameSize(this) \div this.mMinCompressionRatio)

\* An output definition was accepted at 640x480 with ratio 2, so that the
\* ratio term (230400) and not the floor (200000) decides the size; the
\* geometry was set by an earlier input definition.
C1_Witness ==
    /\ ConfigurationChanged
    /\ IsCall(call, "SetParameter(PortDefinition)")
    /\ OnPort(call, kOutputPortIndex)
    /\ this.mWidth = 640
    /\ this.mMinCompressionRatio = 2
    /\ outDef.nBufferSize = 230400

\* C2: after every accepted configuration change the input port's stored
\* buffer size is the metadata record size when the input colour format is
\* opaque, and width*height*3/2 when it is one of the two YUV420 formats.
C2_InputBufferSize ==
    ConfigurationChanged =>
        /\ this.mColorFormat = OMX_COLOR_FormatAndroidOpaque
              => inDef.nBufferSize = MetadataRecordSize
        /\ this.mColorFormat \in { OMX_COLOR_FormatYUV420Planar,
                                   OMX_COLOR_FormatYUV420SemiPlanar }
              => inDef.nBufferSize = RawFrameSize(this)

\* The opaque format was accepted at 640x480: the input size is the record's.
C2_Witness ==
    /\ ConfigurationChanged
    /\ this.mColorFormat = OMX_COLOR_FormatAndroidOpaque
    /\ this.mWidth = 640
    /\ inDef.nBufferSize = 24

IsBadOutputDefinition(c, port) ==
    \/ port.eCompressionFormat # c.mCodingType
    \/ port.eColorFormat # OMX_COLOR_FormatUnused

\* C3: a port definition for the output port whose compression format is not
\* the component's coding type, or whose colour format is not unused, returns
\* OMX_ErrorUnsupportedSetting and leaves the whole component as it was.
C3_RejectedOutputDefinitionChangesNothing ==
    [][ ( /\ IsCall(call', "SetParameter(PortDefinition)")
          /\ OnPort(call', kOutputPortIndex)
          /\ IsBadOutputDefinition(this, call'.param) )
        => ( /\ call'.err = OMX_ErrorUnsupportedSetting
             /\ this' = this ) ]_vars

\* An output definition carrying a new bitrate was turned away.
C3_Witness ==
    /\ IsCall(call, "SetParameter(PortDefinition)")
    /\ OnPort(call, kOutputPortIndex)
    /\ call.err = OMX_ErrorUnsupportedSetting
    /\ call.param.nBitrate # this.mBitrate
    /\ call.param.eCompressionFormat = OMX_VIDEO_CodingMPEG4

ReportedBufferSize(c, portIndex) ==
    internalGetParameter_PortDefinition(c, roHardwareEgl, portIndex).def

\* C4: a port definition for the input port that is turned away with
\* OMX_ErrorUnsupportedSetting leaves width, height, framerate, colour format,
\* the scratch buffer and both ports' buffer sizes, stored and reported by
\* GetParameter, as they were.
C4_RejectedInputDefinitionChangesNothing ==
    [][ ( /\ IsCall(call', "SetParameter(PortDefinition)")
          /\ OnPort(call', kInputPortIndex)
          /\ call'.err = OMX_ErrorUnsupportedSetting )
        => ( /\ this'.mWidth = this.mWidth
             /\ this'.mHeight = this.mHeight
             /\ this'.mFramerate = this.mFramerate
             /\ this'.mColorFormat = this.mColorFormat
             /\ this'.mShmData = this.mShmData
             /\ this'.mPorts = this.mPorts
             /\ \A portIndex \in { kInputPortIndex, kOutputPortIndex } :
                  ReportedBufferSize(this', portIndex) = ReportedBufferSize(this, portIndex) ) ]_vars

\* C5: the input colour format is opaque only while metadata mode is on, and
\* the output port's colour format is never opaque.
C5_OpaqueOnlyInMetadataMode ==
    pc = "ready" =>
        /\ this.mColorFormat = OMX_COLOR_FormatAndroidOpaque => this.mInputDataIsMeta
        /\ outDef.eColorFormat # OMX_COLOR_FormatAndroidOpaque

\* C6: switching metadata mode on for the input port sets the input format to
\* opaque whatever it was; switching it off sets the format to planar YUV420
\* when it was opaque and leaves it alone otherwise.
C6_MetadataToggleFormat ==
    [][ ( /\ IsCall(call', "SetParameter(StoreMetaData)")
          /\ OnPort(call', kInputPortIndex) )
        => ( /\ call'.err = OMX_ErrorNone
             /\ call'.param.bStoreMetaData = OMX_TRUE
                  => this'.mColorFormat = OMX_COLOR_FormatAndroidOpaque
             /\ ( /\ call'.param.bStoreMetaData = OMX_FALSE
                  /\ this.mColorFormat = OMX_COLOR_FormatAndroidOpaque )
                  => this'.mColorFormat = OMX_COLOR_FormatYUV420Planar
             /\ ( /\ call'.param.bStoreMetaData = OMX_FALSE
                  /\ this.mColorFormat # OMX_COLOR_FormatAndroidOpaque )
                  => this'.mColorFormat = this.mColorFormat ) ]_vars

\* Metadata mode was switched off and the input port is back to planar
\* YUV420 with a raw frame size.
C6_Witness ==
    /\ IsCall(call, "SetParameter(StoreMetaData)")
    /\ OnPort(call, kInputPortIndex)
    /\ call.param.bStoreMetaData = OMX_FALSE
    /\ ~this.mInputDataIsMeta
    /\ this.mColorFormat = OMX_COLOR_FormatYUV420Planar
    /\ inDef.eColorFormat = OMX_COLOR_FormatYUV420Planar
    /\ inDef.nBufferSize = RawFrameSize(this)

\* C7: an accepted port definition applied a second time is accepted again
\* and leaves the component exactly as the first application left it.
C7_PortDefinitionIdempotent ==
    ( /\ IsCall(call, "SetParameter(PortDefinition)")
      /\ call.err = OMX_ErrorNone )
    => internalSetParameter_PortDefinition(this, call.param) = Result(OMX_ErrorNone, this)

\* An input definition that changed geometry, framerate and format was accepted.
C7_Witness ==
    /\ IsCall(call, "SetParameter(PortDefinition)")
    /\ call.err = OMX_ErrorNone
    /\ OnPort(call, kInputPortIndex)
    /\ this.mWidth = 640
    /\ this.mFramerate = 15 * 65536
    /\ this.mColorFormat = OMX_COLOR_FormatYUV420SemiPlanar

ExpectedFilledLen(c) ==
    IF c.mInputDataIsMeta THEN MetadataRecordSize ELSE RawFrameSize(c)

\* C8: validateInputBuffer fails exactly when the filled length is below the
\* expected length (the metadata record size in metadata mode, width*height*3/2
\* otherwise), so expected-1 is turned away and expected and expected+1 pass
\* (640x480 raw: 460799 fails, 460800 passes), and it changes no state.
C8_ValidateInputBuffer ==
    [][ IsCall(call', "validateInputBuffer")
        => ( /\ this' = this
             /\ call'.err \in { OMX_ErrorNone, OMX_ErrorUndefined }
             /\ call'.err = OMX_ErrorUndefined
                  <=> call'.param.nFilledLen < ExpectedFilledLen(this)
             /\ ( this.mWidth = 640 /\ this.mHeight = 480 /\ ~this.mInputDataIsMeta )
                  => ( /\ call'.param.nFilledLen = 460799 => call'.err = OMX_ErrorUndefined
                       /\ call'.param.nFilledLen = 460800 => call'.err = OMX_ErrorNone
                       /\ call'.param.nFilledLen = 460801 => call'.err = OMX_ErrorNone ) ) ]_vars

\* A 640x480 raw frame one byte longer than needed was accepted.
C8_Witness ==
    /\ IsCall(call, "validateInputBuffer")
    /\ this.mWidth = 640
    /\ this.mHeight = 480
    /\ ~this.mInputDataIsMeta
    /\ call.param.nFilledLen = 460801
    /\ call.err = OMX_ErrorNone

\* C9: GetParameter(PortDefinition) for the input or the output port returns
\* OMX_ErrorNone in every state, on every platform, without aborting the
\* process.
C9_GetPortDefinitionNeverFails ==
    ( /\ IsCall(call, "GetParameter(PortDefinition)")
      /\ call.param.nPortIndex \in { kInputPortIndex, kOutputPortIndex } )
    => ( /\ ~aborted
         /\ call.err = OMX_ErrorNone )

ToggleLeft(c) ==
    << c.mInputDataIsMeta, c.mColorFormat,
       editPortInfo(c, kInputPortIndex).nBufferSize,
       editPortInfo(c, kOutputPortIndex).nBufferSize >>

\* C10 as stated: the store-metadata toggle aimed at the output port is turned
\* away for both values, with metadata mode, colour format and both buffer
\* sizes unchanged.
C10_OutputToggleRejected ==
    [][ ( /\ IsCall(call', "SetParameter(StoreMetaData)")
          /\ OnPort(call', kOutputPortIndex) )
        => ( /\ call'.err # OMX_ErrorNone
             /\ ToggleLeft(this') = ToggleLeft(this) ) ]_vars

\* C10 amended: the store-metadata toggle aimed at the output port returns
\* OMX_ErrorUnsupportedSetting when it switches metadata mode on and
\* OMX_ErrorNone, doing nothing, when it switches it off; either way metadata
\* mode, colour format and both buffer sizes are unchanged.
C10_OutputToggleChangesNothing ==
    [][ ( /\ IsCall(call', "SetParameter(StoreMetaData)")
          /\ OnPort(call', kOutputPortIndex) )
        => ( /\ call'.err = IF call'.param.bStoreMetaData = OMX_TRUE
                            THEN OMX_ErrorUnsupportedSetting
                            ELSE OMX_ErrorNone
             /\ ToggleLeft(this') = ToggleLeft(this) ) ]_vars

\* A switch-off aimed at the output port returned OMX_ErrorNone while the
\* input port stayed in metadata mode.
C10_Witness ==
    /\ IsCall(call, "SetParameter(StoreMetaData)")
    /\ OnPort(call, kOutputPortIndex)
    /\ call.param.bStoreMetaData = OMX_FALSE
    /\ call.err = OMX_ErrorNone
    /\ this.mInputDataIsMeta
    /\ this.mColorFormat = OMX_COLOR_FormatAndroidOpaque

\* C11: every SetParameter aimed at the output port whose compression format
\* differs from the coding type of the component, or whose colour format is
\* not OMX_COLOR_FormatUnused, returns OMX_ErrorUnsupportedSetting, on the
\* port-definition path and on the video-port-format path.
C11_OutputFormatRejected ==
    ( /\ \/ IsCall(call, "SetParameter(PortDefinition)")
         \/ IsCall(call, "SetParameter(VideoPortFormat)")
      /\ OnPort(call, kOutputPortIndex)
      /\ \/ call.param.eCompressionFormat # this.mCodingType
         \/ call.param.eColorFormat # OMX_COLOR_FormatUnused )
    => call.err = OMX_ErrorUnsupportedSetting

IsInputFormatProposal(c) ==
    /\ \/ IsCall(c, "SetParameter(PortDefinition)")
       \/ IsCall(c, "SetParameter(VideoPortFormat)")
    /\ OnPort(c, kInputPortIndex)

\* C12 as stated: on the input port a format proposal is accepted exactly when
\* its colour format is one of the three supported ones; an accepted proposal
\* becomes the active format and the format of the stored input definition;
\* any other proposal returns OMX_ErrorUnsupportedSetting and leaves the
\* active format as it was; on both paths.
C12_InputFormatByColourOnly ==
    [][ IsInputFormatProposal(call')
        => IF IsSupportedInputColorFormat(call'.param.eColorFormat)
           THEN /\ call'.err = OMX_ErrorNone
                /\ this'.mColorFormat = call'.param.eColorFormat
                /\ editPortInfo(this', kInputPortIndex).eColorFormat
                       = call'.param.eColorFormat
           ELSE /\ call'.err = OMX_ErrorUnsupportedSetting
                /\ this'.mColorFormat = this.mColorFormat ]_vars

\* what makes an input format proposal acceptable on the path it came by
InputFormatAcceptable(c) ==
    /\ IsSupportedInputColorFormat(c.param.eColorFormat)
    /\ IsCall(c, "SetParameter(PortDefinition)")
          => c.param.eCompressionFormat = OMX_VIDEO_CodingUnused

\* C12 amended: on the video-port-format path an input proposal is accepted
\* exactly when its colour format is one of the three supported ones; on the
\* port-definition path it must also carry the compression format
\* OMX_VIDEO_CodingUnused.  An accepted proposal becomes the active format and
\* the format of the stored input definition; every other proposal returns
\* OMX_ErrorUnsupportedSetting and leaves the active format as it was.
C12_InputFormatAcceptance ==
    [][ IsInputFormatProposal(call')
        => IF InputFormatAcceptable(call')
           THEN /\ call'.err = OMX_ErrorNone
                /\ this'.mColorFormat = call'.param.eColorFormat
                /\ editPortInfo(this', kInputPortIndex).eColorFormat
                       = call'.param.eColorFormat
           ELSE /\ call'.err = OMX_ErrorUnsupportedSetting
                /\ this'.mColorFormat = this.mColorFormat ]_vars

\* An input port definition with a supported colour format was turned away
\* for its compression format, and the semi-planar format set before stayed.
C12_Witness ==
    /\ IsCall(call, "SetParameter(PortDefinition)")
    /\ OnPort(call, kInputPortIndex)
    /\ call.param.eColorFormat = OMX_COLOR_FormatYUV420Planar
    /\ call.param.eCompressionFormat # OMX_VIDEO_CodingUnused
    /\ call.err = OMX_ErrorUnsupportedSetting
    /\ this.mColorFormat = OMX_COLOR_FormatYUV420SemiPlanar
    /\ inDef.eColorFormat = OMX_COLOR_FormatYUV420SemiPlanar

IsPortRequest(c) ==
    \/ IsCall(c, "SetParameter(PortDefinition)")
    \/ IsCall(c, "SetParameter(VideoPortFormat)")
    \/ IsCall(c, "SetParameter(StoreMetaData)")

\* C13: a port-definition, video-port-format or store-metadata request whose
\* port index is neither 0 nor 1 returns OMX_ErrorBadPortIndex and changes no
\* member of the component.
C13_BadPortIndexRejected ==
    [][ ( /\ IsPortRequest(call')
          /\ call'.param.nPortIndex \notin { kInputPortIndex, kOutputPortIndex } )
        => ( /\ call'.err = OMX_ErrorBadPortIndex
             /\ this' = this ) ]_vars

\* A port definition for port 2 that would be acceptable on the output port
\* was turned away after the configuration had moved off its defaults.
C13_Witness ==
    /\ IsCall(call, "SetParameter(PortDefinition)")
    /\ call.param.nPortIndex = 2
    /\ call.param.eCompressionFormat = this.mCodingType
    /\ call.param.eColorFormat = OMX_COLOR_FormatUnused
    /\ call.err = OMX_ErrorBadPortIndex
    /\ this.mWidth = 640
    /\ this.mInputDataIsMeta

(* ------------------------------------------- properties of the GPU path *)

NoHandles(c) ==
    /\ c.mEglDisplay = EGL_NO_DISPLAY
    /\ c.mEglSurface = EGL_NO_SURFACE
    /\ c.mEglContext = EGL_NO_CONTEXT

\* C14: over any sequence of initEgl, extraction and closeEgl calls the render
\* context is created at most once: initEgl on an initialised display creates
\* nothing, and once closeEgl has torn the display down no later initEgl
\* leaves it initialised again.
C14_RenderContextCreatedOnce ==
    [][ IsCall(call', "initEgl")
        => ( /\ this.mEglDisplay # EGL_NO_DISPLAY
                  => ( ~reply'.acted /\ this' = this /\ egl' = egl )
             /\ egl.tornDown => this'.mEglDisplay = EGL_NO_DISPLAY ) ]_vars

\* C15: whatever the lifecycle state and however many closeEgl calls follow
\* one another, nothing is released that is not alive (the scratch buffer,
\* the program, the surface, the context and the display are released at most
\* once for each creation), and after closeEgl mShmData is NULL and the
\* display, surface and context handles hold their "none" values.
C15_TeardownIdempotentSafe ==
    [][ /\ ~egl'.doubleRelease
        /\ IsCall(call', "closeEgl")
              => ( this'.mShmData = NULL /\ NoHandles(this') ) ]_vars

\* closeEgl was called on a component whose display had already been torn
\* down and whose scratch buffer had been freed and not allocated again.
C15_Witness ==
    /\ IsCall(call, "closeEgl")
    /\ this.mIsPowervr
    /\ egl.tornDown
    /\ ~reply.acted
    /\ ~egl.shm
    /\ this.mWidth = 640

\* C16: once an initEgl call has failed (eglGetDisplay returned no display,
\* or the metadata type was unsupported), no later initEgl call on the
\* component goes on to eglGetDisplay again.
C16_InitEglFailFast ==
    [][ ( egl.failed /\ IsCall(call', "initEgl") ) => ~reply'.acted ]_vars

InTrace(trace, event) == \E i \in DOMAIN trace : trace[i] = event

ConvertEvents ==
    { "ConvertFlexYUVToPlanar", "ConvertRGB32ToPlanar(bits)",
      "ConvertRGB32ToPlanar(mShmData)" }

GpuEvents == { "eglCreateImageKHR", "glDraw", "glReadPixels" }

WritesDst(trace) == \E i \in DOMAIN trace : trace[i] \in ConvertEvents

\* every call of the setup sequence that leaves something behind succeeded
EglReady(e) ==
    /\ e.display
    /\ e.context
    /\ e.surface
    /\ e.current
    /\ e.program
    /\ e.linked

\* the extraction got as far as the switch on a format that powervr converts
\* on the GPU
NeedsGpu(c, x, trace) ==
    /\ c.mIsPowervr
    /\ InTrace(trace, "lock")
    /\ x.lockOK
    /\ \/ x.eType = kMetadataBufferTypeGrallocSource
       \/ x.format \in Rgb32Formats \cup { HAL_PIXEL_FORMAT_YCbCr_420_888 }

\* C17: an extraction that needs the GPU path while some step of the setup
\* sequence has failed returns NULL and writes nothing to dst; where such an
\* extraction returns dst, every setup step succeeded.
C17_GpuExtractionNeedsSetup ==
    ( /\ IsCall(call, "extractGraphicBuffer")
      /\ ~aborted
      /\ NeedsGpu(this, call.param, reply.trace)
      /\ ~EglReady(egl) )
    => ( /\ call.err = "NULL"
         /\ ~WritesDst(reply.trace) )

\* C18: when the fence of a native-window metadata buffer does not signal in
\* time, extractGraphicBuffer returns NULL without having locked the source
\* buffer, imported or drawn it on the GPU, or written to dst.
C18_FenceTimeout ==
    ( /\ IsCall(call, "extractGraphicBuffer")
      /\ call.param.eType = kMetadataBufferTypeANWBuffer
      /\ call.param.nFenceFd >= 0
      /\ ~call.param.fenceSignals )
    => ( /\ call.err = "NULL"
         /\ ~InTrace(reply.trace, "lock")
         /\ ~WritesDst(reply.trace)
         /\ \A event \in GpuEvents : ~InTrace(reply.trace, event) )

\* The fence of an RGBA buffer timed out on powervr with the display
\* initialised and the scratch buffer in place: metadata, destination and
\* mapper would all have let the extraction through.
C18_Witness ==
    /\ IsCall(call, "extractGraphicBuffer")
    /\ call.param.eType = kMetadataBufferTypeANWBuffer
    /\ call.param.nFenceFd >= 0
    /\ ~call.param.fenceSignals
    /\ call.param.srcSize = sizeofVideoNativeMetadata
    /\ call.param.dstSize = neededSize(this.mWidth, this.mHeight)
    /\ call.param.lockOK
    /\ call.param.format = HAL_PIXEL_FORMAT_RGBA_8888
    /\ this.mIsPowervr
    /\ EglReady(egl)
    /\ this.mShmData # NULL
    /\ reply.trace = << "bufferType", "srcSize", "fence->wait" >>

CheckEvents == { "srcSize", "dstSize", "fence->wait" }

AccessEvents == { "lock" } \cup GpuEvents \cup ConvertEvents

\* C19: in extractGraphicBuffer the metadata size check, the fence wait (for a
\* buffer that has a fence) and the destination size check all come before
\* the source buffer is locked or read and before dst is written; with a
\* fence, the buffer is touched only after the fence has signalled.
C19_ChecksBeforeAccess ==
    IsCall(call, "extractGraphicBuffer")
    => LET trace == reply.trace
           touched == \E i \in DOMAIN trace : trace[i] \in AccessEvents
       IN  /\ \A i, j \in DOMAIN trace :
                 ( trace[i] \in CheckEvents /\ trace[j] \in AccessEvents ) => i < j
           /\ touched => ( InTrace(trace, "srcSize") /\ InTrace(trace, "dstSize") )
           /\ ( /\ touched
                /\ call.param.eType = kMetadataBufferTypeANWBuffer
                /\ call.param.nFenceFd >= 0 )
              => ( InTrace(trace, "fence->wait") /\ call.param.fenceSignals )

\* A YV12 buffer with a fence was converted on the CPU: wait, checks, lock,
\* conversion, unlock.
C19_Witness ==
    /\ IsCall(call, "extractGraphicBuffer")
    /\ call.param.nFenceFd >= 0
    /\ call.err = "dst"
    /\ reply.trace = << "bufferType", "srcSize", "fence->wait", "dstSize", "lock",
                        "ConvertFlexYUVToPlanar", "unlock" >>

\* C20: the scratch buffer is allocated once and never resized: while it
\* exists no call changes its capacity except closeEgl, which frees it, and
\* when it is allocated its capacity is width*height*4 of the frame size set
\* by the call that allocates it.
C20_ScratchNeverResized ==
    [][ /\ ( this.mShmData # NULL /\ this'.mShmData # this.mShmData )
              => ( this'.mShmData = NULL /\ this' = closeEgl(this, egl).c )
        /\ ( this.mShmData = NULL /\ this'.mShmData # NULL )
              => this'.mShmData = this'.mWidth * this'.mHeight * 4 ]_vars

\* An input definition enlarging the frame to 640x480 was accepted while the
\* scratch buffer kept the 320x240 capacity it was allocated with.
C20_Witness ==
    /\ IsCall(call, "SetParameter(PortDefinition)")
    /\ OnPort(call, kInputPortIndex)
    /\ call.err = OMX_ErrorNone
    /\ this.mWidth = 640
    /\ this.mHeight = 480
    /\ this.mShmData = 320 * 240 * 4

(* --------------------------------------- properties of the conversions *)

Offsets(writes) == { w[1] : w \in writes }

\* C21: extractGraphicBuffer called with dstSize below neededSize returns
\* NULL without storing anything, and otherwise every offset into dst that
\* ConvertFlexYUVToPlanar or ConvertRGB32ToPlanar stores to is at least 0 and
\* less than neededSize, hence less than dstSize.
C21_WritesWithinDestination ==
    IsCall(call, "extractGraphicBuffer")
    => LET needed == neededSize(call.param.width, call.param.height)
       IN  /\ call.param.x.dstSize < needed
                => ( call.err = "NULL" /\ reply.writes = { } )
           /\ \A o \in Offsets(reply.writes) :
                 0 <= o /\ o < needed /\ o < call.param.x.dstSize

\* A BGRA frame of 4x4 pixels with padded rows was converted into a
\* destination of exactly neededSize bytes, and the last byte of dst was
\* stored to.
C21_Witness ==
    /\ IsCall(call, "extractGraphicBuffer")
    /\ call.param.width = 4
    /\ call.param.height = 4
    /\ call.param.x.format = HAL_PIXEL_FORMAT_BGRA_8888
    /\ call.param.stride = 6
    /\ call.err = "dst"
    /\ call.param.x.dstSize = 24
    /\ Offsets(reply.writes) = 0 .. 23

\* the planar frame: the luma plane, then the U plane, then the V plane
PlanarFrame(lumaPlane, uPlane, vPlane, width, height) ==
    { << i, lumaPlane[i] >> : i \in 0 .. width * height - 1 }
    \cup { << width * height + k, uPlane[k] >> : k \in DOMAIN uPlane }
    \cup { << width * height + (width * height) \div 4 + k, vPlane[k] >> :
             k \in DOMAIN vPlane }

\* C23: for a width divisible by 4 and an even height, converting the
\* semiplanar frame packed from a Y, a U and a V plane gives back exactly the
\* Y plane followed by the U plane followed by the V plane.
C23_SemiPlanarRoundTrip ==
    IsCall(call, "ConvertYUV420SemiPlanarToYUV420Planar")
    => reply.writes =
          PlanarFrame(PatternBytes(call.param.width * call.param.height),
                      call.param.uPlane, call.param.vPlane,
                      call.param.width, call.param.height)

\* An 8x2 frame whose U and V planes differ from each other and from byte to
\* byte was converted.
C23_Witness ==
    /\ IsCall(call, "ConvertYUV420SemiPlanarToYUV420Planar")
    /\ call.param.width = 8
    /\ call.param.uPlane[0] = 0
    /\ call.param.uPlane[1] = 255
    /\ call.param.vPlane[0] = 255
    /\ call.param.vPlane[1] = 0
    /\ call.param.uPlane[3] # call.param.vPlane[3]
    /\ << 16, 0 >> \in reply.writes
    /\ << 17, 255 >> \in reply.writes
    /\ << 20, 255 >> \in reply.writes

SignedLuma(r, g, b) == (65 * r + 129 * g + 25 * b + 128) \div 256 + 16
SignedU(r, g, b) == ((0 - 38) * r - 74 * g + 112 * b + 128) \div 256 + 128
SignedV(r, g, b) == (112 * r - 94 * g - 18 * b + 128) \div 256 + 128

\* C24: the Y, U and V bytes ConvertRGB32ToPlanar stores for a pixel equal
\* floor((65R+129G+25B+128)/256)+16, floor((-38R-74G+112B+128)/256)+128 and
\* floor((112R-94G-18B+128)/256)+128, and each of these lies in 0..255.
C24_RgbFormulas ==
    ( IsCall(call, "ConvertRGB32ToPlanar") /\ ~aborted )
    => LET r == call.param.rgb[1]
           g == call.param.rgb[2]
           b == call.param.rgb[3]
           w == call.param.width
           h == call.param.height
       IN  /\ { SignedLuma(r, g, b), SignedU(r, g, b), SignedV(r, g, b) } \subseteq 0 .. 255
           /\ << 0, SignedLuma(r, g, b) >> \in reply.writes
           /\ << 1, SignedLuma(255 - r, 255 - g, 255 - b) >> \in reply.writes
           /\ << w * h, SignedU(r, g, b) >> \in reply.writes
           /\ << w * h + (w \div 2) * (h \div 2), SignedV(r, g, b) >> \in reply.writes
           /\ Cardinality(reply.writes) = w * h + 2 * (w \div 2) * (h \div 2)

\* A pure red pixel in a BGRA frame: U is computed from a negative sum.
C24_Witness ==
    /\ IsCall(call, "ConvertRGB32ToPlanar")
    /\ ~aborted
    /\ call.param.rgb = << 255, 0, 0 >>
    /\ call.param.bgr
    /\ call.param.width = 4
    /\ << 0, 81 >> \in reply.writes
    /\ << 4 * call.param.height, 90 >> \in reply.writes

\* C22: a format query on the input port answers index 0, 1, 2 with
\* YUV420Planar, YUV420SemiPlanar, AndroidOpaque in that order and any index
\* from 3 on with OMX_ErrorNoMore, whatever the component has negotiated, and
\* the query changes nothing of the component.
C22_FormatEnumeration ==
    [][ ( IsCall(call', "GetParameter(VideoPortFormat)")
          /\ call'.param.nPortIndex = kInputPortIndex )
        => /\ this' = this
           /\ egl' = egl
           /\ pc' = pc
           /\ LET i == call'.param.nIndex
              IN  IF i >= 3
                  THEN call'.err = OMX_ErrorNoMore /\ reply' = << >>
                  ELSE /\ call'.err = OMX_ErrorNone
                       /\ reply'[1].eColorFormat =
                            << OMX_COLOR_FormatYUV420Planar,
                               OMX_COLOR_FormatYUV420SemiPlanar,
                               OMX_COLOR_FormatAndroidOpaque >>[i + 1]
                       /\ reply'[1].eCompressionFormat = OMX_VIDEO_CodingUnused ]_vars

\* Index 0 was answered with YUV420Planar by a component that has negotiated
\* the opaque format in metadata mode.
C22_Witness ==
    /\ IsCall(call, "GetParameter(VideoPortFormat)")
    /\ call.param.nPortIndex = kInputPortIndex
    /\ call.param.nIndex = 0
    /\ this.mColorFormat = OMX_COLOR_FormatAndroidOpaque
    /\ this.mInputDataIsMeta
    /\ reply[1].eColorFormat = OMX_COLOR_FormatYUV420Planar

Occurrences(trace, event) == Cardinality({ i \in DOMAIN trace : trace[i] = event })

\* C25: an extraction leaves the display, the context, the surface, the
\* program, the scratch buffer and the negotiated configuration as they
\* were, and when it returns every image and every texture it created has
\* been released.
C25_ExtractionKeepsResources ==
    [][ IsCall(call', "extractGraphicBuffer")
        => /\ this' = this
           /\ egl' = egl
           /\ reply'.ret # "none"
                => /\ Occurrences(reply'.trace, "eglDestroyImageKHR")
                        = Occurrences(reply'.trace, "eglCreateImageKHR")
                   /\ Occurrences(reply'.trace, "glDeleteTextures")
                        = Occurrences(reply'.trace, "glGenTextures") ]_vars

\* A GPU extraction imported the buffer, converted and returned dst while the
\* display, the context and the scratch buffer stay in place.
C25_Witness ==
    /\ IsCall(call, "extractGraphicBuffer")
    /\ call.err = "dst"
    /\ this.mIsPowervr
    /\ this.mEglDisplay # EGL_NO_DISPLAY
    /\ this.mEglContext # EGL_NO_CONTEXT
    /\ this.mShmData # NULL
    /\ egl.display
    /\ egl.shm
    /\ InTrace(reply.trace, "eglCreateImageKHR")
    /\ InTrace(reply.trace, "glGenTextures")
    /\ InTrace(reply.trace, "eglDestroyImageKHR")

HandledFormats == Rgb32Formats \cup { HAL_PIXEL_FORMAT_YV12, HAL_PIXEL_FORMAT_YCrCb_420_SP,
                                      HAL_PIXEL_FORMAT_YCbCr_420_888 }

Unsupported(x) ==
    \/ x.eType \notin { kMetadataBufferTypeANWBuffer, kMetadataBufferTypeGrallocSource }
    \/ x.eType = kMetadataBufferTypeANWBuffer /\ x.srcSize < sizeofVideoNativeMetadata
    \/ x.eType = kMetadataBufferTypeGrallocSource /\ x.srcSize < sizeofVideoGrallocMetadata
    \/ x.eType = kMetadataBufferTypeANWBuffer /\ x.format \notin HandledFormats

\* C26: an extraction of a metadata type other than native window or gralloc
\* source, of a record shorter than its type, or of a pixel format that is
\* not handled returns NULL and has written nothing to dst.
C26_UnsupportedSourceFails ==
    ( IsCall(call, "extractGraphicBuffer") /\ Unsupported(call.param) )
    => /\ call.err = "NULL"
       /\ ~reply.crash
       /\ ~WritesDst(reply.trace)
       /\ \A event \in GpuEvents : ~InTrace(reply.trace, event)

\* A native window buffer of format RGB_565 came as far as the switch on the
\* pixel format: it was locked, unlocked and refused.
C26_Witness ==
    /\ IsCall(call, "extractGraphicBuffer")
    /\ call.param.eType = kMetadataBufferTypeANWBuffer
    /\ call.param.format = HAL_PIXEL_FORMAT_RGB_565
    /\ call.err = "NULL"
    /\ InTrace(reply.trace, "lock")
    /\ reply.trace[Len(reply.trace)] = "unlock"

\* C27: when an extraction reaches glReadPixels, mShmData is allocated and
\* holds at least width*height*4 bytes.
C27_ScratchCoversReadback ==
    ( IsCall(call, "extractGraphicBuffer") /\ InTrace(reply.trace, "glReadPixels") )
    => /\ this.mShmData # NULL
       /\ this.mShmData >= this.mWidth * this.mHeight * 4
       /\ ~reply.overrun

\* C30: an extraction that locked the buffer and returned has unlocked it
\* exactly once.
C30_LockUnlockPaired ==
    ( /\ IsCall(call, "extractGraphicBuffer")
      /\ reply.ret # "none"
      /\ InTrace(reply.trace, "lock")
      /\ call.param.lockOK )
    => Occurrences(reply.trace, "unlock") = 1

\* C28: between operations the two stored port definitions carry the same
\* frame width and height as mWidth and mHeight, and the input definition
\* carries mFramerate and mColorFormat.
C28_DefinitionsFollowMembers ==
    pc = "ready"
    => /\ inDef.nFrameWidth = this.mWidth
       /\ outDef.nFrameWidth = this.mWidth
       /\ inDef.nFrameHeight = this.mHeight
       /\ outDef.nFrameHeight = this.mHeight
       /\ inDef.xFramerate = this.mFramerate
       /\ inDef.eColorFormat = this.mColorFormat

\* C29: between operations the length validateInputBuffer asks for is the
\* stored buffer size of the input port, the metadata record size is asked
\* for exactly when the input format is AndroidOpaque, and a buffer filled to
\* the stored size is accepted.
C29_ValidatorAsksNegotiatedSize ==
    pc = "ready"
    => /\ ExpectedFilledLen(this) = inDef.nBufferSize
       /\ this.mInputDataIsMeta <=> inDef.eColorFormat = OMX_COLOR_FormatAndroidOpaque
       /\ validateInputBuffer(this, inDef.nBufferSize) = OMX_ErrorNone

\* C31: the buffer size GetParameter(PortDefinition) reports for a port is the
\* buffer size stored in that port's definition by the last updatePortParams:
\* max(mMinOutputBufferSize, raw / mMinCompressionRatio) for the output port
\* and the metadata record size for the input port while its format is
\* AndroidOpaque.
C31_ReportedSizeIsStoredSize ==
    ( /\ IsCall(call, "GetParameter(PortDefinition)")
      /\ call.param.nPortIndex \in { kInputPortIndex, kOutputPortIndex }
      /\ call.err = OMX_ErrorNone
      /\ ~aborted )
    => LET stored == editPortInfo(this, call.param.nPortIndex)
       IN  /\ reply[1].nBufferSize = stored.nBufferSize
           /\ OnPort(call, kOutputPortIndex)
                => reply[1].nBufferSize =
                      max(this.mMinOutputBufferSize,
                          ((stored.nFrameWidth * stored.nFrameHeight * 3) \div 2)
                             \div this.mMinCompressionRatio)
           /\ ( /\ OnPort(call, kInputPortIndex)
                /\ stored.eColorFormat = OMX_COLOR_FormatAndroidOpaque )
                => reply[1].nBufferSize = MetadataRecordSize

\* C32: an accepted port definition for the output port leaves width, height,
\* framerate, input colour format, metadata mode and the stored buffer size of
\* the input port as they were, whatever frame size it carries, and changes
\* the bitrate alone; an accepted port definition for the input port leaves
\* the bitrate as it was.
C32_OutputDefinitionChangesBitrateOnly ==
    [][ ( IsCall(call', "SetParameter(PortDefinition)") /\ call'.err = OMX_ErrorNone )
        => /\ OnPort(call', kOutputPortIndex)
                => /\ this'.mWidth = this.mWidth
                   /\ this'.mHeight = this.mHeight
                   /\ this'.mFramerate = this.mFramerate
                   /\ this'.mColorFormat = this.mColorFormat
                   /\ this'.mInputDataIsMeta = this.mInputDataIsMeta
                   /\ editPortInfo(this', kInputPortIndex).nBufferSize
                        = editPortInfo(this, kInputPortIndex).nBufferSize
                   /\ this'.mBitrate = call'.param.nBitrate
                   /\ editPortInfo(this', kOutputPortIndex).nBitrate = call'.param.nBitrate
           /\ OnPort(call', kInputPortIndex)
                => /\ this'.mBitrate = this.mBitrate
                   /\ editPortInfo(this', kOutputPortIndex).nBitrate
                        = editPortInfo(this, kOutputPortIndex).nBitrate ]_vars

====
